---- MODULE Spec2Model ----
(***************************************************************************)
(* The quad-form web component (unified FULL|TINY|NANO variant): its        *)
(* identifier engine (the prefix table, validateField, expandQName and     *)
(* contractUri), under Spec, and the form itself (field state, regimes,    *)
(* validate, handleSubmit and the gesture handlers), under FormSpec.       *)
(*                                                                         *)
(* JavaScript strings are strings here, and indexOf, substring,            *)
(* toLowerCase, trim, includes, startsWith and the local-name regular      *)
(* expression are computed character by character as the code computes     *)
(* them.  The prefix table is a sequence of (prefix, expansion) entries in *)
(* insertion order, which is the order Object.entries() iterates in.       *)
(***************************************************************************)
EXTENDS Integers, Sequences, FiniteSets, TLC

\* ------------------------------------------------------------------ bounds
\* Number of prefix-table mutations (events, assignments) explored.
MaxEdits == 2

\* ------------------------------------------------------- JavaScript values
\* Values that are no strings: the absent values, a thrown TypeError and the
\* two booleans.  No input string contains "<".
undefined == "<undefined>"

null == "<null>"

TypeError == "<TypeError>"

JSTrue == "<true>"

JSFalse == "<false>"

\* !value
Falsy(value) == value = "" \/ value = undefined \/ value = null

Bool(b) == IF b THEN JSTrue ELSE JSFalse

LowerChars == "abcdefghijklmnopqrstuvwxyz"

UpperChars == "ABCDEFGHIJKLMNOPQRSTUVWXYZ"

DigitChars == "0123456789"

\* s[i], 1-based
CharAt(s, i) == SubSeq(s, i, i)

Chars(s) == { CharAt(s, i) : i \in 1..Len(s) }

\* [a-zA-Z_]
NameStartChars == Chars(LowerChars) \cup Chars(UpperChars) \cup { "_" }

\* [\w-]
NameChars == NameStartChars \cup Chars(DigitChars) \cup { "-" }

\* String.prototype.trim strips these (the ones the inputs contain)
WhiteSpace == { " ", "\t", "\n" }

\* a + b
Concat(a, b) == a \o b

\* String.prototype.toLowerCase
toLowerCaseChar(c) ==
  IF \E i \in 1..Len(UpperChars) : CharAt(UpperChars, i) = c
  THEN CharAt(LowerChars, CHOOSE i \in 1..Len(UpperChars) : CharAt(UpperChars, i) = c)
  ELSE c

RECURSIVE toLowerCase(_)
toLowerCase(s) ==
  IF s = "" THEN ""
  ELSE toLowerCaseChar(CharAt(s, 1)) \o toLowerCase(SubSeq(s, 2, Len(s)))

\* String.prototype.indexOf(c): 0-based index of the first c, or -1
indexOf(s, c) ==
  LET at == { i \in 1..Len(s) : CharAt(s, i) = c } IN
  IF at = {} THEN -1
  ELSE (CHOOSE i \in at : \A j \in at : i <= j) - 1

\* String.prototype.substring(from) and substring(from, to), 0-based
substringFrom(s, from) == SubSeq(s, from + 1, Len(s))

substring(s, from, to) == SubSeq(s, from + 1, to)

\* String.prototype.startsWith
startsWith(s, pre) == Len(pre) <= Len(s) /\ SubSeq(s, 1, Len(pre)) = pre

\* String.prototype.includes
includes(s, sub) ==
  \E i \in 1..(Len(s) + 1) :
     i + Len(sub) - 1 <= Len(s) /\ SubSeq(s, i, i + Len(sub) - 1) = sub

\* String.prototype.trim
trim(s) ==
  LET keep == { i \in 1..Len(s) : CharAt(s, i) \notin WhiteSpace } IN
  IF keep = {} THEN ""
  ELSE SubSeq(s, CHOOSE i \in keep : \A j \in keep : i <= j,
                 CHOOSE i \in keep : \A j \in keep : j <= i)

\* /^[a-zA-Z_][\w-]*$/.test(s)
LocalNameRegex(s) ==
  /\ Len(s) >= 1
  /\ CharAt(s, 1) \in NameStartChars
  /\ \A i \in 2..Len(s) : CharAt(s, i) \in NameChars

\* ------------------------------------------------------ program constants
COMMON_PREFIXES ==
  << [prefix |-> "rdf",
      expansion |-> "http://www.w3.org/1999/02/22-rdf-syntax-ns#"],
     [prefix |-> "rdfs",
      expansion |-> "http://www.w3.org/2000/01/rdf-schema#"],
     [prefix |-> "owl",
      expansion |-> "http://www.w3.org/2002/07/owl#"],
     [prefix |-> "xsd",
      expansion |-> "http://www.w3.org/2001/XMLSchema#"],
     [prefix |-> "foaf",
      expansion |-> "http://xmlns.com/foaf/0.1/"],
     [prefix |-> "dc",
      expansion |-> "http://purl.org/dc/elements/1.1/"],
     [prefix |-> "dcterms",
      expansion |-> "http://purl.org/dc/terms/"],
     [prefix |-> "schema",
      expansion |-> "http://schema.org/"],
     [prefix |-> "mntl",
      expansion |-> "urn:mmm:mntl:"],
     [prefix |-> "iii",
      expansion |-> "urn:mmm:iii:"],
     [prefix |-> "ex",
      expansion |-> "http://example.org/"],
     [prefix |-> "wp",
      expansion |-> "https://en.wikipedia.org/wiki/"] >>

MMM_URN_SCHEMES ==
  { "trpl", "quad", "snip", "atby", "mntl", "iii", "time" }

STANDARD_SCHEMES ==
  { "http", "https", "ftp", "ftps", "file", "data",
    "mailto", "tel", "sms", "geo",
    "urn", "isbn", "issn", "doi", "uuid", "oid", "lex" }

\* Object.prototype members every plain object inherits: a property read
\* this._prefixes[k] finds them although they are not own properties.
\* The value is what string concatenation makes of Object.prototype.constructor.
ObjectPrototype ==
  << [prefix |-> "constructor",
      expansion |-> "function Object() { [native code] }"] >>

\* ------------------------------------------------------------ prefix table
Keys(tbl) == { tbl[i].prefix : i \in DOMAIN tbl }

\* obj.hasOwnProperty(k)
hasOwnProperty(tbl, k) == k \in Keys(tbl)

Lookup(tbl, k) == tbl[CHOOSE i \in DOMAIN tbl : tbl[i].prefix = k].expansion

\* obj[k]: own property, else inherited from Object.prototype, else undefined
Get(tbl, k) ==
  IF hasOwnProperty(tbl, k) THEN Lookup(tbl, k)
  ELSE IF hasOwnProperty(ObjectPrototype, k) THEN Lookup(ObjectPrototype, k)
  ELSE undefined

\* obj[k] = v: an existing key keeps its position, a new key goes last
Put(tbl, k, v) ==
  IF hasOwnProperty(tbl, k)
  THEN [ i \in DOMAIN tbl |->
           IF tbl[i].prefix = k THEN [prefix |-> k, expansion |-> v] ELSE tbl[i] ]
  ELSE Append(tbl, [prefix |-> k, expansion |-> v])

\* delete obj[k]
Delete(tbl, k) == SelectSeq(tbl, LAMBDA e : e.prefix # k)

\* { ...a, ...b }
RECURSIVE Spread(_, _)
Spread(a, b) ==
  IF b = <<>> THEN a
  ELSE Spread(Put(a, Head(b).prefix, Head(b).expansion), Tail(b))

\* ------------------------------------------------------------- validateField
\* validateField with the prefix-table test made before the scheme tests
validateField_prefixFirst(tbl, field, value, type) ==
  IF Falsy(value) \/ trim(value) = "" THEN FALSE
  ELSE IF type = "uri" \/ type = "qname" THEN
    LET colonIndex == indexOf(value, ":") IN
    IF colonIndex <= 0 THEN FALSE
    ELSE
      LET scheme == toLowerCase(substring(value, 0, colonIndex))
          nss == substringFrom(value, colonIndex + 1)
      IN  IF Len(nss) = 0 THEN FALSE
          ELSE IF hasOwnProperty(tbl, scheme) THEN LocalNameRegex(nss)
          ELSE IF scheme \in MMM_URN_SCHEMES THEN TRUE
          ELSE IF scheme \in STANDARD_SCHEMES THEN TRUE
          ELSE FALSE
  ELSE TRUE

\* validateField without the empty / whitespace-only rejection
validateField_noEmptyCheck(tbl, field, value, type) ==
  IF type = "uri" \/ type = "qname" THEN
    LET colonIndex == IF Falsy(value) THEN -1 ELSE indexOf(value, ":") IN
    IF colonIndex <= 0 THEN FALSE
    ELSE
      LET scheme == toLowerCase(substring(value, 0, colonIndex))
          nss == substringFrom(value, colonIndex + 1)
      IN  IF Len(nss) = 0 THEN FALSE
          ELSE IF scheme \in MMM_URN_SCHEMES THEN TRUE
          ELSE IF scheme \in STANDARD_SCHEMES THEN TRUE
          ELSE IF hasOwnProperty(tbl, scheme) THEN LocalNameRegex(nss)
          ELSE FALSE
  ELSE TRUE

\* validateField that accepts every value containing "://" as a complete URI
validateField_anyUri(tbl, field, value, type) ==
  IF Falsy(value) \/ trim(value) = "" THEN FALSE
  ELSE IF type = "uri" \/ type = "qname" THEN
    IF includes(value, "://") THEN TRUE
    ELSE
    LET colonIndex == indexOf(value, ":") IN
    IF colonIndex <= 0 THEN FALSE
    ELSE
      LET scheme == toLowerCase(substring(value, 0, colonIndex))
          nss == substringFrom(value, colonIndex + 1)
      IN  IF Len(nss) = 0 THEN FALSE
          ELSE IF scheme \in MMM_URN_SCHEMES THEN TRUE
          ELSE IF scheme \in STANDARD_SCHEMES THEN TRUE
          ELSE IF hasOwnProperty(tbl, scheme) THEN LocalNameRegex(nss)
          ELSE FALSE
  ELSE TRUE

\* validateField(field, value, type) against the prefix table tbl
validateField(tbl, field, value, type) ==
  IF Falsy(value) \/ trim(value) = "" THEN FALSE
  ELSE IF type = "uri" \/ type = "qname" THEN
    LET colonIndex == indexOf(value, ":") IN
    \* Must contain a colon to be a valid identifier
    IF colonIndex <= 0 THEN FALSE
    ELSE
      LET scheme == toLowerCase(substring(value, 0, colonIndex))
          nss == substringFrom(value, colonIndex + 1)
      IN  \* Empty NSS/localName is invalid
          IF Len(nss) = 0 THEN FALSE
          ELSE IF scheme \in MMM_URN_SCHEMES THEN TRUE
          ELSE IF scheme \in STANDARD_SCHEMES THEN TRUE
          \* the table is asked for the lower-cased scheme
          ELSE IF hasOwnProperty(tbl, scheme) THEN LocalNameRegex(nss)
          ELSE FALSE
  ELSE IF type = "string" THEN TRUE
  ELSE TRUE

\* --------------------------------------------------------------- expandQName
\* expandQName without the early return for values containing "://"
expandQName_noUriCheck(tbl, value) ==
  IF Falsy(value) THEN value
  ELSE
    LET colonIndex == indexOf(value, ":") IN
    IF colonIndex = -1 THEN value
    ELSE
      LET prefix == substring(value, 0, colonIndex) IN
      IF prefix \in MMM_URN_SCHEMES \/ prefix \in STANDARD_SCHEMES THEN value
      ELSE
        LET localPart == substringFrom(value, colonIndex + 1)
            found == Get(tbl, prefix)
        IN  IF found # undefined /\ found # ""
            THEN Concat(found, localPart)
            ELSE value

\* expandQName without the reserved / standard scheme test
expandQName_noSchemeCheck(tbl, value) ==
  IF Falsy(value) \/ includes(value, "://") THEN value
  ELSE
    LET colonIndex == indexOf(value, ":") IN
    IF colonIndex = -1 THEN value
    ELSE
      LET prefix == substring(value, 0, colonIndex)
          localPart == substringFrom(value, colonIndex + 1)
          found == Get(tbl, prefix)
      IN  IF found # undefined /\ found # ""
          THEN Concat(found, localPart)
          ELSE value

\* expandQName whose local part still carries the colon
expandQName_keepColon(tbl, value) ==
  IF Falsy(value) \/ includes(value, "://") THEN value
  ELSE
    LET colonIndex == indexOf(value, ":") IN
    IF colonIndex = -1 THEN value
    ELSE
      LET prefix == substring(value, 0, colonIndex) IN
      IF prefix \in MMM_URN_SCHEMES \/ prefix \in STANDARD_SCHEMES THEN value
      ELSE
        LET localPart == substringFrom(value, colonIndex)
            found == Get(tbl, prefix)
        IN  IF found # undefined /\ found # ""
            THEN Concat(found, localPart)
            ELSE value

\* expandQName(value) against the prefix table tbl
expandQName(tbl, value) ==
  IF Falsy(value) \/ includes(value, "://") THEN value
  ELSE
    LET colonIndex == indexOf(value, ":") IN
    IF colonIndex = -1 THEN value
    ELSE
      \* the prefix is compared as written, not lower-cased
      LET prefix == substring(value, 0, colonIndex) IN
      IF prefix \in MMM_URN_SCHEMES \/ prefix \in STANDARD_SCHEMES THEN value
      ELSE
        LET localPart == substringFrom(value, colonIndex + 1)
            found == Get(tbl, prefix)
        IN  \* if (this._prefixes[prefix]): undefined and '' are falsy
            IF found # undefined /\ found # ""
            THEN Concat(found, localPart)
            ELSE value

\* --------------------------------------------------------------- contractUri
\* contractUri that drops one character too many after the namespace
contractUri_offByOne(tbl, value) ==
  IF tbl = <<>> THEN value
  ELSE IF value = undefined \/ value = null THEN TypeError
  ELSE
    LET hits == { i \in DOMAIN tbl : startsWith(value, tbl[i].expansion) } IN
    IF hits = {} THEN value
    ELSE
      LET first == CHOOSE i \in hits : \A j \in hits : i <= j IN
      Concat(Concat(tbl[first].prefix, ":"),
             substringFrom(value, Len(tbl[first].expansion) + 1))

\* contractUri(value) against the prefix table tbl: the first entry, in
\* Object.entries order, whose expansion the value starts with wins.
\* value.startsWith on an absent value throws as soon as the loop body runs.
contractUri(tbl, value) ==
  IF tbl = <<>> THEN value
  ELSE IF value = undefined \/ value = null THEN TypeError
  ELSE
    LET hits == { i \in DOMAIN tbl : startsWith(value, tbl[i].expansion) } IN
    IF hits = {} THEN value
    ELSE
      LET first == CHOOSE i \in hits : \A j \in hits : i <= j IN
      Concat(Concat(tbl[first].prefix, ":"),
             substringFrom(value, Len(tbl[first].expansion)))

\* --------------------------------------------------------------------- inputs
\* Values are composed head + separator + tail.
Heads ==
  { "", "ex", "EX", "Ex", " ex", "foo", "mntl", "MNTL", "http", "Https",
    "constructor" }

Seps == { "", ":", "://" }

Tails == { "", "Alice", "1a", "publ/scratch", " ", "a:b" }

\* grammar-conforming local names
Locals == { "Alice", "a-1_b", "_" }

\* every reserved and standard scheme followed by a non-empty rest
SchemeValues ==
  { Concat(Concat(s, ":"), t) :
      s \in MMM_URN_SCHEMES \cup STANDARD_SCHEMES,
      t \in { "x", "publ/scratch" } }

Values ==
  { Concat(Concat(h, s), t) : h \in Heads, s \in Seps, t \in Tails }
    \cup SchemeValues \cup { undefined, null }

\* prefix:local for every registered prefix
QNames(tbl) ==
  { Concat(Concat(k, ":"), l) : k \in Keys(tbl), l \in Locals }

\* e.detail of the prefix-added / prefix-enabled events
EventDetails ==
  { [prefix |-> "ex",
     expansion |-> "http://example.org/a/"],
    [prefix |-> "ex", expansion |-> ""],
    [prefix |-> "Ex",
     expansion |-> "http://example.org/"],
    [prefix |-> "exa",
     expansion |-> "http://example.org/a/"],
    [prefix |-> "urn", expansion |-> "urn:x:"] }

\* e.detail.prefix of the prefix-disabled event
DisabledPrefixes ==
  { "ex", "mntl" }

\* mappings assigned to the prefixes property
PrefixMappings ==
  { << [prefix |-> "ex",
        expansion |-> "http://ex.org/"],
       [prefix |-> "foo",
        expansion |-> "http://example.org/foo#"] >>,
    << >> }

\* the initial type of each field, and the literal types of the object
FieldTypePairs ==
  { <<"subject", "uri">>, <<"predicate", "qname">>, <<"object", "uri">>,
    <<"graph", "qname">>, <<"object", "string">>, <<"object", "xsd:integer">> }

\* ---------------------------------------------------------------------- state
VARIABLES
  prefixes,   \* this._prefixes
  edits,      \* number of prefix-table mutations so far
  op,         \* the method being called, "idle" between calls
  argField,   \* its field argument
  argValue,   \* its value argument
  argType,    \* its type argument
  ret,        \* what it returned (TypeError when it threw)
  edit        \* the last mutation of the prefix table and its argument

\* The form (constructor, part_002:103-168) and the parts of its shadow DOM
\* that the handlers read back.
VARIABLES
  fieldValues,         \* this.fieldValues
  fieldTypes,          \* this.fieldTypes
  fieldControls,       \* this.fieldControls
  tinyFieldTypes,      \* this.tinyFieldTypes
  tinyPickerIndices,   \* this.tinyPickerIndices
  nanoMode,            \* this.nanoMode
  tinyMode,            \* this.tinyMode
  objectDatatype,      \* this._objectDatatype
  objectLanguage,      \* this._objectLanguage
  objectUsesTextarea,  \* this.objectUsesTextarea
  graphMentalSpace,    \* this.graphMentalSpace
  graphPath,           \* this.graphPath
  mmmServer,           \* this._mmmServer
  currentIdentity,     \* this._currentIdentity
  expandQNames,        \* this._expandQNames
  defaultGraph,        \* this._defaultGraph
  dom,                 \* the rendered elements: data-mode, values, classes, flags
  pending,             \* the addQuad calls handleSubmit is still awaiting
  connected,           \* is the element in a document?
  attributionInterval, \* this._attributionInterval
  timers,              \* number of setInterval timers that are running
  gestures,            \* number of gestures and host calls so far
  handler,             \* the handler or method that ran last
  emitted,             \* what it dispatched and called, in order
  stored,              \* the records it handed to mmmServer.addQuad
  returned,            \* what it returned
  settled              \* how the addQuad call it was awaiting settled

formVars ==
  <<fieldValues, fieldTypes, fieldControls, tinyFieldTypes, tinyPickerIndices,
    nanoMode, tinyMode,
    objectDatatype, objectLanguage, objectUsesTextarea, graphMentalSpace,
    graphPath, mmmServer, currentIdentity, expandQNames, defaultGraph, dom,
    pending, connected, attributionInterval, timers, gestures, handler,
    emitted, stored, returned, settled>>

\* what the form holds, without the record of the last handler
formState ==
  <<fieldValues, fieldTypes, fieldControls, tinyFieldTypes, tinyPickerIndices,
    nanoMode, tinyMode,
    objectDatatype, objectLanguage, objectUsesTextarea, graphMentalSpace,
    graphPath, mmmServer, currentIdentity, expandQNames, defaultGraph, dom,
    pending, connected, attributionInterval, timers, gestures>>

vars ==
  <<prefixes, edits, op, argField, argValue, argType, ret, edit, formVars>>

\* `settled` of a handler that was not waiting for the collaborator
NotAwaited == [ outcome |-> "none", reason |-> undefined ]

\* a prefixes-form listener or the prefixes setter ran: it touches nothing
\* of the form and dispatches nothing
Listened(name) ==
  /\ handler' = name
  /\ emitted' = << >>
  /\ stored' = << >>
  /\ returned' = undefined
  /\ settled' = NotAwaited
  /\ UNCHANGED formState

callVars == <<op, argField, argValue, argType, ret>>

\* render(): the elements as connectedCallback leaves them.  `hidden` is the
\* set of elements carrying the class "hidden", `languageValue` the text in
\* the language input; no button is rendered disabled.
RenderedDom ==
  [ mode |-> "full",
    value |-> [ id \in { "subject-input", "predicate-input", "object-input",
                         "object-textarea", "subject-select",
                         "predicate-select", "object-select" } |-> "" ],
    hidden |-> { "subject-select", "predicate-input", "object-select",
                 "object-textarea" },
    languageValue |-> "",
    languageDisabled |-> TRUE,
    submitDisabled |-> FALSE,
    submitTinyDisabled |-> FALSE ]

\* the constructor followed by connectedCallback
FormInit ==
  /\ fieldValues = [ subject |-> "", predicate |-> "", object |-> "",
                     graph |-> "" ]
  /\ fieldTypes = [ subject |-> "uri", predicate |-> "qname", object |-> "uri",
                    graph |-> "qname" ]
  /\ fieldControls = [ subject |-> "input", predicate |-> "select",
                       object |-> "input", graph |-> "select" ]
  /\ tinyFieldTypes = [ subject |-> "qname", predicate |-> "qname",
                        object |-> "qname" ]
  /\ nanoMode = FALSE
  /\ tinyMode = FALSE
  /\ objectDatatype = ""
  /\ objectLanguage = ""
  /\ objectUsesTextarea = FALSE
  /\ graphMentalSpace = "mntl:publ"
  /\ graphPath = "/scratch"
  /\ mmmServer = null
  /\ currentIdentity = null
  /\ expandQNames = TRUE
  /\ defaultGraph = "mntl:publ/scratch"
  /\ dom = RenderedDom
  /\ tinyPickerIndices = [ subject |-> 0, predicate |-> 0, object |-> 0 ]
  /\ pending = << >>
  /\ connected = TRUE
  /\ attributionInterval = "interval"
  /\ timers = 1
  /\ gestures = 0
  /\ handler = "connectedCallback"
  /\ emitted = << >>
  /\ stored = << >>
  /\ returned = undefined
  /\ settled = NotAwaited

\* what `edit` records: the listener or setter that ran, e.detail of the
\* event, and the value assigned to the prefixes property
Edit(kind, prefix, expansion, mapping) ==
  [ kind |-> kind, prefix |-> prefix, expansion |-> expansion,
    mapping |-> mapping ]

\* set prefixes(value), with the defaults spread last
AssignPrefixes_defaultsWin(value) ==
  Spread(Spread(<<>>, value), COMMON_PREFIXES)

\* set prefixes(value): this._prefixes = { ...COMMON_PREFIXES, ...value }
AssignPrefixes(value) ==
  Spread(Spread(<<>>, COMMON_PREFIXES), value)

Init ==
  /\ prefixes = Spread(<<>>, COMMON_PREFIXES)
  /\ edit = Edit("none", "", "", <<>>)
  /\ edits = 0
  /\ op = "idle"
  /\ argField = "none"
  /\ argValue = undefined
  /\ argType = "none"
  /\ ret = undefined
  /\ FormInit

\* prefixesForm 'prefix-added' listener
PrefixAdded ==
  /\ op = "idle"
  /\ edits < MaxEdits
  /\ \E detail \in EventDetails :
        /\ prefixes' = Put(prefixes, detail.prefix, detail.expansion)
        /\ edit' = Edit("prefix-added", detail.prefix, detail.expansion, <<>>)
  /\ edits' = edits + 1
  /\ UNCHANGED callVars
  /\ Listened("prefix-added")

\* prefixesForm 'prefix-enabled' listener
PrefixEnabled ==
  /\ op = "idle"
  /\ edits < MaxEdits
  /\ \E detail \in EventDetails :
        /\ prefixes' = Put(prefixes, detail.prefix, detail.expansion)
        /\ edit' = Edit("prefix-enabled", detail.prefix, detail.expansion, <<>>)
  /\ edits' = edits + 1
  /\ UNCHANGED callVars
  /\ Listened("prefix-enabled")

\* prefixesForm 'prefix-disabled' listener
PrefixDisabled ==
  /\ op = "idle"
  /\ edits < MaxEdits
  /\ \E prefix \in DisabledPrefixes :
        /\ prefixes' = Delete(prefixes, prefix)
        /\ edit' = Edit("prefix-disabled", prefix, "", <<>>)
  /\ edits' = edits + 1
  /\ UNCHANGED callVars
  /\ Listened("prefix-disabled")

\* set prefixes(value)
SetPrefixes ==
  /\ op = "idle"
  /\ edits < MaxEdits
  /\ \E value \in PrefixMappings :
        /\ prefixes' = AssignPrefixes(value)
        /\ edit' = Edit("set prefixes", "", "", value)
  /\ edits' = edits + 1
  /\ UNCHANGED callVars
  /\ Listened("set prefixes")

\* a caller invokes validateField(field, value, type)
CallValidateField ==
  /\ op = "idle"
  /\ \E ft \in FieldTypePairs, value \in Values \cup QNames(prefixes) :
        /\ argField' = ft[1]
        /\ argValue' = value
        /\ argType' = ft[2]
        /\ ret' = Bool(validateField(prefixes, ft[1], value, ft[2]))
  /\ op' = "validateField"
  /\ UNCHANGED <<prefixes, edits, edit>>
  /\ UNCHANGED formVars

\* a caller invokes expandQName(value)
CallExpandQName ==
  /\ op = "idle"
  /\ \E value \in Values \cup QNames(prefixes) :
        /\ argValue' = value
        /\ ret' = expandQName(prefixes, value)
  /\ op' = "expandQName"
  /\ argField' = "none"
  /\ argType' = "none"
  /\ UNCHANGED <<prefixes, edits, edit>>
  /\ UNCHANGED formVars

\* a caller invokes contractUri(value), also on what expandQName returned
CallContractUri ==
  /\ op = "idle"
  /\ \E value \in Values \cup QNames(prefixes)
                  \cup { expandQName(prefixes, q) : q \in QNames(prefixes) } :
        /\ argValue' = value
        /\ ret' = contractUri(prefixes, value)
  /\ op' = "contractUri"
  /\ argField' = "none"
  /\ argType' = "none"
  /\ UNCHANGED <<prefixes, edits, edit>>
  /\ UNCHANGED formVars

\* the call returns to its caller
Return ==
  /\ op # "idle"
  /\ op' = "idle"
  /\ argField' = "none"
  /\ argValue' = undefined
  /\ argType' = "none"
  /\ ret' = undefined
  /\ UNCHANGED <<prefixes, edits, edit>>
  /\ UNCHANGED formVars

Next ==
  \/ PrefixAdded
  \/ PrefixEnabled
  \/ PrefixDisabled
  \/ SetPrefixes
  \/ CallValidateField
  \/ CallExpandQName
  \/ CallContractUri
  \/ Return

Spec == Init /\ [][Next]_vars

\* ======================================================================= form
\* Presentation that no handler reads back (colours, placeholders, decorators,
\* focus, this.fieldValidity) is left out, and so is the `at` clock reading of
\* a record.

\* Number of gestures, host calls and prefix-table mutations explored.
MaxGestures == 4

\* Number of addQuad calls awaited at the same time.
MaxPending == 2

\* Number of gestures and host calls explored on the form of quad-form.js,
\* where a submission takes five of them: the four fields and the collaborator.
MaxJsGestures == 6

COMMON_PROPERTIES ==
  << "rdf:type", "rdfs:label", "rdfs:comment", "owl:sameAs", "foaf:name",
     "foaf:knows", "dc:title", "dc:creator", "dcterms:created", "schema:name",
     "schema:description" >>

Fields == { "subject", "predicate", "object" }

engineVars == <<prefixes, edits, op, argField, argValue, argType, ret, edit>>

configVars == <<mmmServer, currentIdentity, expandQNames, defaultGraph>>

modeVars == <<nanoMode, tinyMode>>

lifeVars == <<connected, attributionInterval, timers>>

typeVars == <<fieldTypes, fieldControls, tinyFieldTypes>>

tagVars == <<objectDatatype, objectLanguage, objectUsesTextarea>>

graphVars == <<graphMentalSpace, graphPath>>

\* a || b
Or(a, b) == IF Falsy(a) THEN b ELSE a

\* the element ids of a field's controls
InputOf(field) == field \o "-input"

SelectOf(field) == field \o "-select"

\* renderSelectOptions: the option values of a field's picker
Options(field) ==
  { "" } \cup
  ( IF field = "predicate"
      THEN { COMMON_PROPERTIES[i] : i \in DOMAIN COMMON_PROPERTIES }
      ELSE { } )

\* select.value = v: a value that is no option leaves the select without a
\* selection, and select.value then reads ''
Selected(field, v) == IF v \in Options(field) THEN v ELSE ""

\* the style sheet: can the user reach the element in the current mode?
\* The elements of a disconnected form are not displayed.
Shown(id) ==
  IF ~connected THEN FALSE
  ELSE IF dom.mode = "full" THEN id \notin dom.hidden
  ELSE IF dom.mode = "tiny"
    THEN \/ id \in { "subject-input", "predicate-input" }
         \/ (id \in { "object-input", "object-textarea" } /\ id \notin dom.hidden)
  ELSE id \in { "object-input", "object-textarea" } /\ id \notin dom.hidden

\* the style sheet: the buttons of .form-actions the user can reach
ButtonShown(id) ==
  IF ~connected THEN FALSE
  ELSE IF dom.mode = "full"
    THEN id \in { "tiny-btn", "nano-btn", "clear-btn", "submit-btn" }
  ELSE IF dom.mode = "tiny"
    THEN id \in { "form-btn", "clear-btn", "submit-btn-tiny" }
  ELSE FALSE

\* new CustomEvent(type, { detail })
Notify(type, detail) == [ type |-> type, detail |-> detail ]

FieldChanged(field, value) ==
  Notify("field-changed", [ field |-> field, value |-> value ])

ValidationChanged(errors) ==
  Notify("validation-changed",
         [ valid |-> Bool(errors = << >>), errors |-> errors ])

\* validate() that requires the graph in every regime
validationErrors_graphEverywhere(m, fv) ==
  LET required(f, msg) == IF Falsy(fv[f]) THEN << msg >> ELSE << >> IN
  IF m = "nano" THEN required("object", "Object is required")
                        \o required("graph", "Graph is required")
  ELSE required("subject", "Subject is required")
         \o required("predicate", "Predicate is required")
         \o required("object", "Object is required")
         \o required("graph", "Graph is required")

\* validate(): the `errors` list for the container's data-mode m
validationErrors(m, fv) ==
  LET required(f, msg) == IF Falsy(fv[f]) THEN << msg >> ELSE << >> IN
  IF m = "nano" THEN required("object", "Object is required")
  ELSE IF m = "tiny"
    THEN required("subject", "Subject is required")
           \o required("predicate", "Predicate is required")
           \o required("object", "Object is required")
  ELSE required("subject", "Subject is required")
         \o required("predicate", "Predicate is required")
         \o required("object", "Object is required")
         \o required("graph", "Graph is required")

\* validate(): submitBtn.disabled = submitBtnTiny.disabled = !valid
Validated(d, errors) ==
  [ d EXCEPT !.submitDisabled = errors # << >>,
             !.submitTinyDisabled = errors # << >> ]

\* getGraphPrefix()
getGraphPrefix(space, identity) ==
  IF Falsy(identity)
    THEN IF space = "mntl:publ" THEN "mntl:publ" ELSE space \o "/{identity}"
  ELSE IF space = "http:" \/ space = "https:" THEN space \o "//"
  ELSE IF space = "mntl:publ" THEN "mntl:publ"
  ELSE space \o "/" \o identity

\* getObjectTinyType()
getObjectTinyType(fullType) ==
  IF fullType = "uri" THEN "uri"
  ELSE IF fullType = "qname" THEN "qname"
  ELSE IF fullType = "xsd:string" THEN "string"
  ELSE "literal"

\* handleTypeChange: shouldUseTextarea
TextareaTypes ==
  { "xsd:string", "rdf:HTML", "rdf:XMLLiteral", "rdf:JSON", "mmmdt:markdown" }

\* the nano form's defaults written over whatever the fields hold
NanoDefaults_overwrite(fv, graph) ==
  [ fv EXCEPT !.subject = "ex:DefaultSubject",
              !.predicate = "rdfs:comment",
              !.graph = graph ]

\* toggleNanoMode and handleSubmit in the nano form: if (!this.fieldValues.x)
\* this.fieldValues.x = its default
NanoDefaults(fv, graph) ==
  [ fv EXCEPT !.subject = Or(@, "ex:DefaultSubject"),
              !.predicate = Or(@, "rdfs:comment"),
              !.graph = Or(@, graph) ]

\* classList.add('hidden') on one element and classList.remove on another
Swap(hidden, hide, show) == (hidden \cup { hide }) \ { show }

\* handleSubmit's record with the identity left as configured
Quad_noAnonymous(tbl, fv, expand, identity, datatype, language) ==
  [ s |-> IF expand THEN expandQName(tbl, fv.subject) ELSE fv.subject,
    p |-> IF expand THEN expandQName(tbl, fv.predicate) ELSE fv.predicate,
    o |-> IF expand THEN expandQName(tbl, fv.object) ELSE fv.object,
    g |-> IF expand THEN expandQName(tbl, fv.graph) ELSE fv.graph,
    by |-> identity,
    d |-> IF ~Falsy(datatype) /\ datatype # "xsd:string"
            THEN datatype ELSE undefined,
    l |-> IF ~Falsy(language) THEN language ELSE undefined ]

\* handleSubmit's record with every non-empty datatype attached
Quad_stringTagged(tbl, fv, expand, identity, datatype, language) ==
  [ s |-> IF expand THEN expandQName(tbl, fv.subject) ELSE fv.subject,
    p |-> IF expand THEN expandQName(tbl, fv.predicate) ELSE fv.predicate,
    o |-> IF expand THEN expandQName(tbl, fv.object) ELSE fv.object,
    g |-> IF expand THEN expandQName(tbl, fv.graph) ELSE fv.graph,
    by |-> Or(identity, "anonymous"),
    d |-> IF ~Falsy(datatype) THEN datatype ELSE undefined,
    l |-> IF ~Falsy(language) THEN language ELSE undefined ]

\* handleSubmit: the record `quad`; d and l are undefined when not attached
Quad(tbl, fv, expand, identity, datatype, language) ==
  [ s |-> IF expand THEN expandQName(tbl, fv.subject) ELSE fv.subject,
    p |-> IF expand THEN expandQName(tbl, fv.predicate) ELSE fv.predicate,
    o |-> IF expand THEN expandQName(tbl, fv.object) ELSE fv.object,
    g |-> IF expand THEN expandQName(tbl, fv.graph) ELSE fv.graph,
    by |-> Or(identity, "anonymous"),
    d |-> IF ~Falsy(datatype) /\ datatype # "xsd:string"
            THEN datatype ELSE undefined,
    l |-> IF ~Falsy(language) THEN language ELSE undefined ]

\* --------------------------------------------------------------- form inputs
\* what the user types or the host passes to setField
TypedValues(field) ==
  IF field = "subject" THEN { "", "ex:Alice" }
  ELSE IF field = "predicate" THEN { "", "foaf:knows" }
  ELSE IF field = "object" THEN { "", " ", "ex:Bob" }
  ELSE { "mntl:publ/scratch", "ex:g" }

\* the types offered by the type selectors
TypeOptions(field) ==
  IF field = "object"
    THEN { "qname", "uri", "xsd:string", "rdf:HTML", "xsd:gYear" }
    ELSE { "qname", "uri" }

\* text typed into the language input (maxlength 3)
LanguageTexts == { "e", "EN", "@en" }

GraphPaths == { "", "/scratch" }

Identities == { "alice" }

DefaultGraphs == { "ex:g", "" }

\* what the collaborator rejects an addQuad call with
Rejections == { "offline", "denied" }

\* ---------------------------------------------------------------- form steps
\* there is room for one more gesture, host call or prefix-table mutation
Budget == gestures + edits < MaxGestures

\* bookkeeping shared by the steps: which handler ran and what it dispatched
Stepped(name, notifications) ==
  /\ handler' = name
  /\ emitted' = notifications
  /\ stored' = << >>
  /\ returned' = undefined
  /\ settled' = NotAwaited
  /\ gestures' = gestures + 1
  /\ UNCHANGED <<engineVars, pending>>

\* a step that leaves the connection and the refresh timer alone
Ran(name, notifications) ==
  /\ Stepped(name, notifications)
  /\ UNCHANGED <<lifeVars, tinyPickerIndices>>

\* 'input' listener of subject-input, predicate-input and object-input
OnInput ==
  /\ Budget
  /\ \E field \in Fields :
       /\ Shown(InputOf(field))
       /\ \E value \in TypedValues(field) \ { dom.value[InputOf(field)] } :
            LET fv == [ fieldValues EXCEPT ![field] = value ]
                errors == validationErrors(dom.mode, fv)
            IN /\ fieldValues' = fv
               /\ dom' = Validated(
                           [ dom EXCEPT !.value[InputOf(field)] = value ],
                           errors)
               /\ Ran("input", << FieldChanged(field, value),
                                  ValidationChanged(errors) >>)
  /\ UNCHANGED <<configVars, modeVars, typeVars, tagVars, graphVars>>

\* 'input' listener of object-textarea
OnTextareaInput ==
  /\ Budget
  /\ Shown("object-textarea")
  /\ \E value \in TypedValues("object") \ { dom.value["object-textarea"] } :
       LET fv == [ fieldValues EXCEPT !.object = value ]
           errors == validationErrors(dom.mode, fv)
       IN /\ fieldValues' = fv
          /\ dom' = Validated(
                      [ dom EXCEPT !.value["object-textarea"] = value ],
                      errors)
          /\ Ran("textarea input", << FieldChanged("object", value),
                                      ValidationChanged(errors) >>)
  /\ UNCHANGED <<configVars, modeVars, typeVars, tagVars, graphVars>>

\* 'change' listener of the field pickers
OnSelectChange ==
  /\ Budget
  /\ dom.mode = "full"
  /\ \E field \in Fields :
       /\ Shown(SelectOf(field))
       /\ \E value \in (Options(field) \cap ({ "" } \cup TypedValues(field)))
                         \ { dom.value[SelectOf(field)] } :
            LET fv == [ fieldValues EXCEPT ![field] = value ]
                errors == validationErrors(dom.mode, fv)
            IN /\ fieldValues' = fv
               /\ dom' = Validated(
                           [ dom EXCEPT !.value[SelectOf(field)] = value ],
                           errors)
               /\ Ran("select change", << FieldChanged(field, value),
                                          ValidationChanged(errors) >>)
  /\ UNCHANGED <<configVars, modeVars, typeVars, tagVars, graphVars>>

\* setField(name, value)
SetField ==
  /\ Budget
  /\ \E name \in Fields \cup { "graph" } :
       \E value \in TypedValues(name) :
         LET fv == [ fieldValues EXCEPT ![name] = value ]
             errors == validationErrors(dom.mode, fv)
             prefix == getGraphPrefix(graphMentalSpace, currentIdentity)
             d1 == IF name = "graph" THEN dom
                   ELSE IF fieldControls[name] = "input"
                     THEN [ dom EXCEPT !.value[InputOf(name)] = value ]
                   ELSE IF fieldControls[name] = "select"
                     THEN [ dom EXCEPT !.value[SelectOf(name)] =
                                          Selected(name, value) ]
                   ELSE dom
             d2 == IF name = "object"
                     THEN [ d1 EXCEPT !.value["object-textarea"] = value ]
                     ELSE d1
         IN /\ fieldValues' = fv
            /\ dom' = Validated(d2, errors)
            /\ graphPath' = IF name = "graph" /\ startsWith(value, prefix)
                              THEN substringFrom(value, Len(prefix))
                              ELSE graphPath
            /\ Ran("setField", << ValidationChanged(errors) >>)
  /\ UNCHANGED <<configVars, modeVars, typeVars, tagVars, graphMentalSpace>>

\* handleTypeChange: 'change' listener of the type selectors
HandleTypeChange ==
  /\ Budget
  /\ connected
  /\ dom.mode = "full"
  /\ \E field \in Fields :
       \E newType \in TypeOptions(field) \ { fieldTypes[field] } :
         LET oldType == fieldTypes[field]
             convert(v) ==
               IF oldType = "qname" /\ newType = "uri"
                 THEN expandQName(prefixes, v)
               ELSE IF oldType = "uri" /\ newType = "qname"
                 THEN contractUri(prefixes, v)
               ELSE v
             converts == { oldType, newType } = { "qname", "uri" }
             \* subject and predicate
             current == Or(dom.value[InputOf(field)], fieldValues[field])
             \* object
             currentValue == Or(dom.value["object-input"],
                                Or(dom.value["object-textarea"],
                                   fieldValues.object))
             valueToUse == convert(currentValue)
             shouldUseTextarea == newType \in TextareaTypes
             isQNameOrUri == newType \in { "qname", "uri" }
             fv == IF field = "object"
                     THEN [ fieldValues EXCEPT !.object = valueToUse ]
                   ELSE IF converts
                     THEN [ fieldValues EXCEPT ![field] = convert(current) ]
                   ELSE fieldValues
             d1 == IF field = "object"
                     THEN IF shouldUseTextarea
                       THEN [ dom EXCEPT
                                !.hidden = Swap(@, "object-input",
                                                "object-textarea"),
                                !.value["object-textarea"] = valueToUse ]
                       ELSE [ dom EXCEPT
                                !.hidden = Swap(@, "object-textarea",
                                                "object-input"),
                                !.value["object-input"] = valueToUse ]
                   ELSE IF converts
                     THEN [ dom EXCEPT
                              !.value[InputOf(field)] = convert(current) ]
                   ELSE dom
             d2 == IF field = "object"
                     THEN [ d1 EXCEPT
                              !.languageDisabled = ~shouldUseTextarea,
                              !.languageValue = IF isQNameOrUri THEN "" ELSE @ ]
                     ELSE d1
             errors == validationErrors(dom.mode, fv)
         IN /\ fieldTypes' = [ fieldTypes EXCEPT ![field] = newType ]
            /\ fieldValues' = fv
            /\ dom' = Validated(d2, errors)
            /\ objectUsesTextarea' = IF field = "object" THEN shouldUseTextarea
                                     ELSE objectUsesTextarea
            /\ objectDatatype' = IF field # "object" THEN objectDatatype
                                 ELSE IF isQNameOrUri THEN "" ELSE newType
            /\ objectLanguage' = IF field = "object" /\ isQNameOrUri THEN ""
                                 ELSE objectLanguage
            /\ Ran("handleTypeChange", << ValidationChanged(errors) >>)
  /\ UNCHANGED <<configVars, modeVars, fieldControls, tinyFieldTypes, graphVars>>

\* handleControlToggle: 'click' listener of the input/picker toggles
HandleControlToggle ==
  /\ Budget
  /\ connected
  /\ dom.mode = "full"
  /\ \E field \in Fields :
       LET newControl == IF fieldControls[field] = "input" THEN "select"
                         ELSE "input"
           errors == validationErrors(dom.mode, fieldValues)
       IN /\ fieldControls' = [ fieldControls EXCEPT ![field] = newControl ]
          /\ dom' = Validated(
                      [ dom EXCEPT !.hidden =
                          IF newControl = "input"
                            THEN Swap(@, SelectOf(field), InputOf(field))
                            ELSE Swap(@, InputOf(field), SelectOf(field)) ],
                      errors)
          /\ Ran("handleControlToggle", << ValidationChanged(errors) >>)
  /\ UNCHANGED <<configVars, modeVars, fieldValues, fieldTypes, tinyFieldTypes,
                 tagVars, graphVars>>

\* toggleTinyMode() that leaves nanoMode as it is when the tiny form is entered
toggleTinyMode_keepsNano ==
  /\ Budget
  /\ IF ~tinyMode
       THEN LET picked(field) ==
                  /\ SelectOf(field) \notin dom.hidden
                  /\ ~Falsy(dom.value[SelectOf(field)])
                synced(field) ==
                  IF picked(field) THEN dom.value[SelectOf(field)]
                  ELSE fieldValues[field]
                fv == [ fieldValues EXCEPT !.subject = synced("subject"),
                                           !.predicate = synced("predicate"),
                                           !.object = synced("object") ]
                inputValue(field) ==
                  IF picked(field) THEN dom.value[SelectOf(field)]
                  ELSE dom.value[InputOf(field)]
                d1 == [ dom EXCEPT
                          !.value["subject-input"] = inputValue("subject"),
                          !.value["predicate-input"] = inputValue("predicate"),
                          !.value["object-input"] = inputValue("object"),
                          !.mode = "tiny" ]
            IN /\ tinyMode' = TRUE
               /\ nanoMode' = nanoMode
               /\ fieldValues' = fv
               /\ tinyFieldTypes' =
                    [ subject |-> IF fieldTypes.subject = "uri" THEN "uri"
                                  ELSE "qname",
                      predicate |-> IF fieldTypes.predicate = "uri" THEN "uri"
                                    ELSE "qname",
                      object |-> getObjectTinyType(fieldTypes.object) ]
               /\ dom' =
                    IF objectUsesTextarea
                      THEN [ d1 EXCEPT
                               !.hidden = Swap(@, "object-input",
                                               "object-textarea"),
                               !.value["object-textarea"] =
                                  IF Falsy(fv.object) THEN @ ELSE fv.object ]
                      ELSE [ d1 EXCEPT
                               !.hidden = Swap(@, "object-textarea",
                                               "object-input"),
                               !.value["object-input"] =
                                  IF Falsy(fv.object) THEN @ ELSE fv.object ]
       ELSE /\ tinyMode' = FALSE
            /\ dom' = [ dom EXCEPT !.mode = "full" ]
            /\ UNCHANGED <<nanoMode, fieldValues, tinyFieldTypes>>
  /\ Ran("toggleTinyMode", << >>)
  /\ UNCHANGED <<configVars, fieldTypes, fieldControls, tagVars, graphVars>>

\* toggleTinyMode(): entering copies a visible picker's value into the field
toggleTinyMode ==
  /\ Budget
  /\ IF ~tinyMode
       THEN LET picked(field) ==
                  /\ SelectOf(field) \notin dom.hidden
                  /\ ~Falsy(dom.value[SelectOf(field)])
                synced(field) ==
                  IF picked(field) THEN dom.value[SelectOf(field)]
                  ELSE fieldValues[field]
                fv == [ fieldValues EXCEPT !.subject = synced("subject"),
                                           !.predicate = synced("predicate"),
                                           !.object = synced("object") ]
                inputValue(field) ==
                  IF picked(field) THEN dom.value[SelectOf(field)]
                  ELSE dom.value[InputOf(field)]
                d1 == [ dom EXCEPT
                          !.value["subject-input"] = inputValue("subject"),
                          !.value["predicate-input"] = inputValue("predicate"),
                          !.value["object-input"] = inputValue("object"),
                          !.mode = "tiny" ]
            IN /\ tinyMode' = TRUE
               /\ nanoMode' = FALSE
               /\ fieldValues' = fv
               /\ tinyFieldTypes' =
                    [ subject |-> IF fieldTypes.subject = "uri" THEN "uri"
                                  ELSE "qname",
                      predicate |-> IF fieldTypes.predicate = "uri" THEN "uri"
                                    ELSE "qname",
                      object |-> getObjectTinyType(fieldTypes.object) ]
               /\ dom' =
                    IF objectUsesTextarea
                      THEN [ d1 EXCEPT
                               !.hidden = Swap(@, "object-input",
                                               "object-textarea"),
                               !.value["object-textarea"] =
                                  IF Falsy(fv.object) THEN @ ELSE fv.object ]
                      ELSE [ d1 EXCEPT
                               !.hidden = Swap(@, "object-textarea",
                                               "object-input"),
                               !.value["object-input"] =
                                  IF Falsy(fv.object) THEN @ ELSE fv.object ]
       ELSE /\ tinyMode' = FALSE
            /\ dom' = [ dom EXCEPT !.mode = "full" ]
            /\ UNCHANGED <<nanoMode, fieldValues, tinyFieldTypes>>
  /\ Ran("toggleTinyMode", << >>)
  /\ UNCHANGED <<configVars, fieldTypes, fieldControls, tagVars, graphVars>>

\* the 'click' listener of tiny-btn and form-btn
ToggleTinyMode ==
  /\ ButtonShown("tiny-btn") \/ ButtonShown("form-btn")
  /\ toggleTinyMode

\* toggleNanoMode made a toggle: a request in the nano form leads back to the
\* full form
ToggleNanoMode_twoWay ==
  /\ Budget
  /\ ButtonShown("nano-btn") \/ nanoMode
  /\ IF ~nanoMode
       THEN /\ nanoMode' = TRUE
            /\ dom' = [ dom EXCEPT !.mode = "nano" ]
            /\ fieldValues' = NanoDefaults(fieldValues, defaultGraph)
       ELSE /\ nanoMode' = FALSE
            /\ dom' = [ dom EXCEPT !.mode = "full" ]
            /\ UNCHANGED fieldValues
  /\ tinyMode' = FALSE
  /\ Ran("toggleNanoMode", << >>)
  /\ UNCHANGED <<configVars, typeVars, tagVars, graphVars>>

\* toggleNanoMode(): entering fills the hidden fields; there is no way back
toggleNanoMode ==
  /\ Budget
  /\ IF ~nanoMode
       THEN /\ nanoMode' = TRUE
            /\ tinyMode' = FALSE
            /\ dom' = [ dom EXCEPT !.mode = "nano" ]
            /\ fieldValues' = NanoDefaults(fieldValues, defaultGraph)
       ELSE UNCHANGED <<nanoMode, tinyMode, dom, fieldValues>>
  /\ Ran("toggleNanoMode", << >>)
  /\ UNCHANGED <<configVars, typeVars, tagVars, graphVars>>

\* the 'click' listener of nano-btn, or toggleNanoMode requested again when
\* the nano form is up
ToggleNanoMode ==
  /\ ButtonShown("nano-btn") \/ nanoMode
  /\ toggleNanoMode

\* cycleTinyFieldType: the Escape key in an input of the tiny form
CycleTinyFieldType ==
  /\ Budget
  /\ dom.mode = "tiny"
  /\ \E field \in Fields :
       /\ Shown(InputOf(field))
       /\ LET current == tinyFieldTypes[field]
              next == IF field = "object"
                        THEN IF current = "qname" THEN "uri"
                             ELSE IF current = "uri" THEN "string"
                             ELSE "qname"
                        ELSE IF current = "qname" THEN "uri" ELSE "qname"
              currentValue == fieldValues[field]
              value == IF Falsy(currentValue) THEN currentValue
                       ELSE IF next = "uri" /\ current = "qname"
                         THEN expandQName(prefixes, currentValue)
                       ELSE IF next = "qname" /\ current = "uri"
                         THEN contractUri(prefixes, currentValue)
                       ELSE currentValue
          IN /\ tinyFieldTypes' = [ tinyFieldTypes EXCEPT ![field] = next ]
             /\ fieldValues' = [ fieldValues EXCEPT ![field] = value ]
             /\ dom' = [ dom EXCEPT !.value[InputOf(field)] = value ]
  /\ Ran("cycleTinyFieldType", << >>)
  /\ UNCHANGED <<configVars, modeVars, fieldTypes, fieldControls, tagVars,
                 graphVars>>

\* getPickerValues(field)
getPickerValues(tbl, field) ==
  IF field = "predicate" THEN COMMON_PROPERTIES
  ELSE [ i \in 1..(2 * Len(tbl)) |->
           tbl[(i + 1) \div 2].prefix
             \o (IF i % 2 = 1 THEN ":Class" ELSE ":Resource") ]

\* cycleTinyPicker(field, direction): ArrowUp or ArrowDown in an input of the
\* tiny form; values[k] of the code is values[k + 1] here
CycleTinyPicker ==
  /\ Budget
  /\ dom.mode = "tiny"
  /\ \E field \in Fields, direction \in { -1, 1 } :
       /\ Shown(InputOf(field))
       /\ LET values == getPickerValues(prefixes, field)
              stepped == tinyPickerIndices[field] + direction
              newIndex == IF stepped < 0 THEN Len(values) - 1
                          ELSE IF stepped >= Len(values) THEN 0
                          ELSE stepped
          IN IF Len(values) = 0
               THEN UNCHANGED <<tinyPickerIndices, fieldValues, dom>>
               ELSE /\ tinyPickerIndices' =
                         [ tinyPickerIndices EXCEPT ![field] = newIndex ]
                    /\ fieldValues' =
                         [ fieldValues EXCEPT ![field] = values[newIndex + 1] ]
                    /\ dom' = [ dom EXCEPT !.value[InputOf(field)] =
                                              values[newIndex + 1] ]
  /\ Stepped("cycleTinyPicker", << >>)
  /\ UNCHANGED <<lifeVars, configVars, modeVars, typeVars, tagVars, graphVars>>

\* value.replace(/^@/, '')
stripAt(text) ==
  IF startsWith(text, "@") THEN substringFrom(text, 1) ELSE text

\* 'input' listener of the language input
OnLanguageInput ==
  /\ Budget
  /\ connected
  /\ dom.mode = "full"
  /\ ~dom.languageDisabled
  /\ \E text \in LanguageTexts \ { dom.languageValue } :
       LET value == toLowerCase(stripAt(text)) IN
       /\ objectLanguage' = IF Len(value) = 1 THEN "" ELSE value
       /\ dom' = [ dom EXCEPT !.languageValue =
                     IF Len(value) = 1 THEN "" ELSE text ]
  /\ Ran("language input", << >>)
  /\ UNCHANGED <<configVars, modeVars, typeVars, fieldValues, objectDatatype,
                 objectUsesTextarea, graphVars>>

\* 'input' listener of graph-path-input: handleGraphPathChange
OnGraphPathInput ==
  /\ Budget
  /\ connected
  /\ dom.mode = "full"
  /\ \E path \in GraphPaths :
       LET fv == [ fieldValues EXCEPT !.graph =
                     getGraphPrefix(graphMentalSpace, currentIdentity) \o path ]
           errors == validationErrors(dom.mode, fv)
       IN /\ graphPath' = path
          /\ fieldValues' = fv
          /\ dom' = Validated(dom, errors)
          /\ Ran("handleGraphPathChange", << ValidationChanged(errors) >>)
  /\ UNCHANGED <<configVars, modeVars, typeVars, tagVars, graphMentalSpace>>

\* the options of graph-mental-space-select that are not disabled
MentalSpaces == { "mntl:open", "mntl:publ" }

\* 'change' listener of graph-mental-space-select:
\* handleGraphMentalSpaceChange
OnGraphMentalSpaceChange ==
  /\ Budget
  /\ connected
  /\ dom.mode = "full"
  /\ \E newSpace \in MentalSpaces \ { graphMentalSpace } :
       LET oldSpace == graphMentalSpace
           kept == IF startsWith(oldSpace, "mntl:") /\ startsWith(newSpace, "mntl:")
                     THEN graphPath
                   ELSE IF newSpace = "mntl:publ" THEN "/scratch" ELSE "/path"
           path == IF newSpace \in { "http:", "https:" }
                        /\ kept \in { "/scratch", "/path" }
                     THEN "//example.org/graph"
                     ELSE kept
           fv == [ fieldValues EXCEPT !.graph =
                     getGraphPrefix(newSpace, currentIdentity) \o path ]
           errors == validationErrors(dom.mode, fv)
       IN /\ graphMentalSpace' = newSpace
          /\ graphPath' = path
          /\ fieldValues' = fv
          /\ dom' = Validated(dom, errors)
          /\ Ran("handleGraphMentalSpaceChange", << ValidationChanged(errors) >>)
  /\ UNCHANGED <<configVars, modeVars, typeVars, tagVars>>

\* clear() as it would be if it emptied the graph too instead of putting the
\* default graph back
Clear_emptyGraph ==
  /\ Budget
  /\ LET fv == [ subject |-> "", predicate |-> "", object |-> "", graph |-> "" ]
         errors == validationErrors(dom.mode, fv)
     IN /\ fieldValues' = fv
        /\ fieldTypes' = [ subject |-> "uri", predicate |-> "qname",
                           object |-> "uri", graph |-> "qname" ]
        /\ objectDatatype' = ""
        /\ objectLanguage' = ""
        /\ objectUsesTextarea' = FALSE
        /\ dom' = Validated(
                    [ dom EXCEPT !.value = [ id \in DOMAIN @ |-> "" ],
                                 !.languageValue = "",
                                 !.languageDisabled = TRUE ],
                    errors)
        /\ Ran("clear", << ValidationChanged(errors) >>)
  /\ UNCHANGED <<configVars, modeVars, fieldControls, tinyFieldTypes, graphVars>>

\* clear()
Clear ==
  /\ Budget
  /\ LET fv == [ subject |-> "", predicate |-> "", object |-> "",
                 graph |-> defaultGraph ]
         errors == validationErrors(dom.mode, fv)
     IN /\ fieldValues' = fv
        /\ fieldTypes' = [ subject |-> "uri", predicate |-> "qname",
                           object |-> "uri", graph |-> "qname" ]
        /\ objectDatatype' = ""
        /\ objectLanguage' = ""
        /\ objectUsesTextarea' = FALSE
        /\ dom' = Validated(
                    [ dom EXCEPT !.value = [ id \in DOMAIN @ |-> "" ],
                                 !.languageValue = "",
                                 !.languageDisabled = TRUE ],
                    errors)
        /\ Ran("clear", << ValidationChanged(errors) >>)
  /\ UNCHANGED <<configVars, modeVars, fieldControls, tinyFieldTypes, graphVars>>

\* set mmmServer(value)
SetMmmServer ==
  /\ Budget
  /\ mmmServer' = IF mmmServer = null THEN "mmmServer" ELSE null
  /\ Ran("set mmmServer", << >>)
  /\ UNCHANGED <<currentIdentity, expandQNames, defaultGraph, modeVars,
                 typeVars, tagVars, graphVars, fieldValues, dom>>

\* updateAttribution() that starts a timer on every call
Started_always(interval, running) == running + 1

\* updateAttribution(): a timer is started when none is recorded
Started(interval, running) ==
  IF Falsy(interval) THEN running + 1 ELSE running

\* set currentIdentity(value), which calls updateAttribution()
SetCurrentIdentity ==
  /\ Budget
  /\ \E value \in (Identities \cup { null }) \ { currentIdentity } :
       currentIdentity' = value
  /\ timers' = Started(attributionInterval, timers)
  /\ attributionInterval' = "interval"
  /\ Stepped("set currentIdentity", << >>)
  /\ UNCHANGED <<connected, tinyPickerIndices, mmmServer, expandQNames, defaultGraph, modeVars,
                 typeVars, tagVars, graphVars, fieldValues, dom>>

\* set expandQNames(value)
SetExpandQNames ==
  /\ Budget
  /\ expandQNames' = ~expandQNames
  /\ Ran("set expandQNames", << >>)
  /\ UNCHANGED <<mmmServer, currentIdentity, defaultGraph, modeVars, typeVars,
                 tagVars, graphVars, fieldValues, dom>>

\* set defaultGraph(value)
SetDefaultGraph ==
  /\ Budget
  /\ \E value \in DefaultGraphs :
       /\ defaultGraph' = value
       /\ fieldValues' = [ fieldValues EXCEPT !.graph = value ]
  /\ Ran("set defaultGraph", << >>)
  /\ UNCHANGED <<mmmServer, currentIdentity, expandQNames, modeVars, typeVars,
                 tagVars, graphVars, dom>>

\* render(): the elements as built from the form's state
Render ==
  [ mode |-> IF nanoMode THEN "nano" ELSE IF tinyMode THEN "tiny" ELSE "full",
    value |-> [ id \in DOMAIN dom.value |->
                  IF id \in { "object-input", "object-textarea" }
                    THEN fieldValues.object
                  ELSE IF id = "subject-input" THEN fieldValues.subject
                  ELSE IF id = "predicate-input" THEN fieldValues.predicate
                  ELSE "" ],
    hidden |->
      { InputOf(f) : f \in { g \in Fields : fieldControls[g] = "select" } }
      \cup { SelectOf(f) : f \in { g \in Fields : fieldControls[g] = "input" } }
      \cup ( IF objectUsesTextarea THEN { "object-input" }
             ELSE { "object-textarea" } ),
    languageValue |-> objectLanguage,
    languageDisabled |-> ~objectUsesTextarea,
    submitDisabled |-> FALSE,
    submitTinyDisabled |-> FALSE ]

\* disconnectedCallback()
Disconnect ==
  /\ Budget
  /\ connected
  /\ connected' = FALSE
  /\ timers' = IF Falsy(attributionInterval) THEN timers ELSE timers - 1
  /\ attributionInterval' = null
  /\ Stepped("disconnectedCallback", << >>)
  /\ UNCHANGED <<configVars, modeVars, typeVars, tagVars, graphVars, tinyPickerIndices,
                 fieldValues, dom>>

\* connectedCallback() of a form that was disconnected: render() builds the
\* elements anew, updateAttribution() starts the timer
Connect ==
  /\ Budget
  /\ ~connected
  /\ connected' = TRUE
  /\ dom' = Render
  /\ timers' = Started(attributionInterval, timers)
  /\ attributionInterval' = "interval"
  /\ Stepped("connectedCallback", << >>)
  /\ UNCHANGED <<configVars, modeVars, typeVars, tagVars, graphVars, tinyPickerIndices,
                 fieldValues>>

\* validate(), called by the host
Validate ==
  /\ LET errors == validationErrors(dom.mode, fieldValues) IN
       /\ dom' = Validated(dom, errors)
       /\ emitted' = << ValidationChanged(errors) >>
       /\ returned' = Bool(errors = << >>)
  /\ handler' = "validate"
  /\ stored' = << >>
  /\ settled' = NotAwaited
  /\ UNCHANGED <<engineVars, gestures, pending, lifeVars, configVars, modeVars, typeVars, tagVars,
                 tinyPickerIndices,
                 graphVars, fieldValues>>

\* a submit gesture is at hand: a click on the enabled submit button of the
\* full form, Enter in the tiny form, blur or Tab in the nano form
SubmitGesture ==
  /\ connected
  /\ \/ dom.mode = "full" /\ ~dom.submitDisabled
     \/ dom.mode = "tiny"
     \/ dom.mode = "nano"

\* this._mmmServer.addQuad(quad), as an entry of `emitted`
Called(method, argument) == [ type |-> "call " \o method, detail |-> argument ]

\* the arguments of the addQuad calls among the entries of `emitted`
Calls(effects) ==
  LET calls == SelectSeq(effects, LAMBDA n : n.type = "call addQuad")
  IN [ i \in DOMAIN calls |-> calls[i].detail ]

\* handleSubmit with the collaborator called before the notification
SubmitEffects_callFirst(quad, server) ==
  ( IF ~Falsy(server) THEN << Called("addQuad", quad) >> ELSE << >> )
  \o << Notify("quad-submitted", quad) >>

\* handleSubmit from the dispatch of quad-submitted to the await
SubmitEffects(quad, server) ==
  << Notify("quad-submitted", quad) >>
  \o ( IF ~Falsy(server) THEN << Called("addQuad", quad) >> ELSE << >> )

\* handleSubmit's catch: one quad-error with detail { error: err }
Caught(err) == << Notify("quad-error", [ error |-> err ]) >>

\* handleSubmit in the nano form, with the test of the object untrimmed
Blank_untrimmed(value) == Falsy(value)

\* handleSubmit in the nano form: !object || object.trim() === ''
Blank(value) == Falsy(value) \/ trim(value) = ""

\* handleSubmit: this.fieldValues after the regime's default filling
SubmitFields(m, fv, graph) ==
  IF m = "nano"
    THEN IF Blank(fv.object) THEN fv ELSE NanoDefaults(fv, graph)
  ELSE IF m = "tiny" THEN [ fv EXCEPT !.graph = Or(@, graph) ]
  ELSE fv

\* handleSubmit made to return while an earlier addQuad call is outstanding
Proceeds_idleOnly(m, fv) ==
  /\ pending = << >>
  /\ IF m = "nano" THEN ~Blank(fv.object) ELSE validationErrors(m, fv) = << >>

\* handleSubmit: does it get past its early returns?
Proceeds(m, fv) ==
  IF m = "nano" THEN ~Blank(fv.object) ELSE validationErrors(m, fv) = << >>

\* handleSubmit(e), up to the await of addQuad; the call stays in `pending`
\* until the collaborator settles it
HandleSubmit ==
  /\ SubmitGesture
  /\ LET m == dom.mode
         fv == SubmitFields(m, fieldValues, defaultGraph)
         errors == validationErrors(m, fv)
         proceeds == Proceeds(m, fv)
         quad == Quad(prefixes, fv, expandQNames, currentIdentity,
                      objectDatatype, objectLanguage)
         effects == IF proceeds THEN SubmitEffects(quad, mmmServer) ELSE << >>
         calls == Calls(effects)
     IN /\ Len(pending) + Len(calls) <= MaxPending
        /\ fieldValues' = fv
        /\ dom' = IF m = "nano" THEN dom ELSE Validated(dom, errors)
        /\ emitted' =
             ( IF m = "nano" THEN << >> ELSE << ValidationChanged(errors) >> )
             \o effects
        /\ stored' = calls
        /\ pending' = pending \o calls
  /\ handler' = "handleSubmit"
  /\ returned' = undefined
  /\ settled' = NotAwaited
  /\ UNCHANGED <<engineVars, gestures, lifeVars, configVars, modeVars, tinyPickerIndices,
                 typeVars, tagVars, graphVars>>

\* what handleSubmit does when an awaited addQuad settles
Settled(outcome, notifications) ==
  /\ handler' = "handleSubmit resumed"
  /\ settled' = outcome
  /\ emitted' = notifications
  /\ stored' = << >>
  /\ returned' = undefined
  /\ UNCHANGED <<engineVars, gestures, lifeVars, configVars, modeVars, tinyPickerIndices,
                 typeVars, tagVars, graphVars, fieldValues, dom>>

\* the sequence without its i-th element
Without(seq, i) == SubSeq(seq, 1, i - 1) \o SubSeq(seq, i + 1, Len(seq))

\* handleSubmit after the await: addQuad resolved
AddQuadResolved ==
  /\ \E i \in DOMAIN pending : pending' = Without(pending, i)
  /\ Settled([ outcome |-> "resolved", reason |-> undefined ], << >>)

\* handleSubmit's catch followed by the reset that clear() performs
AddQuadRejected_rollback ==
  /\ \E i \in DOMAIN pending : pending' = Without(pending, i)
  /\ \E err \in Rejections :
       /\ handler' = "handleSubmit resumed"
       /\ settled' = [ outcome |-> "rejected", reason |-> err ]
       /\ emitted' = Caught(err)
  /\ stored' = << >>
  /\ returned' = undefined
  /\ fieldValues' = [ subject |-> "", predicate |-> "", object |-> "",
                      graph |-> defaultGraph ]
  /\ UNCHANGED <<engineVars, gestures, lifeVars, configVars, modeVars, tinyPickerIndices,
                 typeVars, tagVars, graphVars, dom>>

\* handleSubmit after the await: addQuad rejected with err
AddQuadRejected ==
  /\ \E i \in DOMAIN pending : pending' = Without(pending, i)
  /\ \E err \in Rejections :
       Settled([ outcome |-> "rejected", reason |-> err ], Caught(err))

\* ------------------------------------------------- src/src/quad-form.js
\* The older variant of the component.  Its constructor, setters and prefix
\* engine are those of the unified variant; validate(), handleSubmit() and
\* the field listeners differ and are modelled here, for the Full form.
JsBudget == gestures < MaxJsGestures

\* validate() of quad-form.js: the `errors` list, the same in every mode
JsValidationErrors(fv) ==
  LET required(f, msg) == IF Falsy(fv[f]) THEN << msg >> ELSE << >> IN
  required("subject", "Subject is required")
    \o required("predicate", "Predicate is required")
    \o required("object", "Object is required")
    \o required("graph", "Graph is required")

\* validate() of quad-form.js: submitBtn.disabled = !valid
JsValidated(d, errors) == [ d EXCEPT !.submitDisabled = errors # << >> ]

\* this.clear() of quad-form.js that leaves the field values alone
JsCleared_keepsValues(before) ==
  LET errors == JsValidationErrors(fieldValues)
  IN /\ UNCHANGED fieldValues
     /\ fieldTypes' = [ subject |-> "uri", predicate |-> "qname",
                        object |-> "uri", graph |-> "qname" ]
     /\ objectDatatype' = ""
     /\ objectLanguage' = ""
     /\ objectUsesTextarea' = FALSE
     /\ dom' = JsValidated(dom, errors)
     /\ emitted' = before \o << ValidationChanged(errors) >>

\* this.clear() of quad-form.js, run after the handler has dispatched `before`
JsCleared(before) ==
  LET fv == [ subject |-> "", predicate |-> "", object |-> "",
              graph |-> defaultGraph ]
      errors == JsValidationErrors(fv)
  IN /\ fieldValues' = fv
     /\ fieldTypes' = [ subject |-> "uri", predicate |-> "qname",
                        object |-> "uri", graph |-> "qname" ]
     /\ objectDatatype' = ""
     /\ objectLanguage' = ""
     /\ objectUsesTextarea' = FALSE
     /\ dom' = JsValidated(
                 [ dom EXCEPT !.value = [ id \in DOMAIN @ |-> "" ],
                              !.languageValue = "",
                              !.languageDisabled = TRUE ],
                 errors)
     /\ emitted' = before \o << ValidationChanged(errors) >>

\* what the steps of quad-form.js modelled here never touch
JsFrame ==
  UNCHANGED <<engineVars, lifeVars, modeVars, fieldControls, tinyFieldTypes,
              tinyPickerIndices, graphVars, currentIdentity, expandQNames>>

\* handleFieldChange: the 'input' and 'change' listeners of the field inputs
\* and pickers
JsHandleFieldChange ==
  /\ JsBudget
  /\ \E field \in Fields :
       \E id \in { InputOf(field), SelectOf(field) } :
         /\ Shown(id)
         /\ \E value \in ( IF id = SelectOf(field)
                              THEN Options(field) \cap ({ "" } \cup TypedValues(field))
                              ELSE TypedValues(field) ) \ { dom.value[id] } :
              LET fv == [ fieldValues EXCEPT ![field] = value ]
                  errors == JsValidationErrors(fv)
              IN /\ fieldValues' = fv
                 /\ dom' = JsValidated([ dom EXCEPT !.value[id] = value ], errors)
                 /\ emitted' = << FieldChanged(field, value),
                                  ValidationChanged(errors) >>
  /\ handler' = "handleFieldChange"
  /\ stored' = << >>
  /\ returned' = undefined
  /\ settled' = NotAwaited
  /\ gestures' = gestures + 1
  /\ JsFrame
  /\ UNCHANGED <<fieldTypes, tagVars, mmmServer, defaultGraph, pending>>

\* set mmmServer(value) of quad-form.js
JsSetMmmServer ==
  /\ JsBudget
  /\ mmmServer' = IF mmmServer = null THEN "mmmServer" ELSE null
  /\ handler' = "set mmmServer"
  /\ emitted' = << >>
  /\ stored' = << >>
  /\ returned' = undefined
  /\ settled' = NotAwaited
  /\ gestures' = gestures + 1
  /\ JsFrame
  /\ UNCHANGED <<fieldValues, fieldTypes, tagVars, dom, defaultGraph, pending>>

\* set defaultGraph(value) of quad-form.js
JsSetDefaultGraph ==
  /\ JsBudget
  /\ \E value \in DefaultGraphs :
       /\ defaultGraph' = value
       /\ fieldValues' = [ fieldValues EXCEPT !.graph = value ]
  /\ handler' = "set defaultGraph"
  /\ emitted' = << >>
  /\ stored' = << >>
  /\ returned' = undefined
  /\ settled' = NotAwaited
  /\ gestures' = gestures + 1
  /\ JsFrame
  /\ UNCHANGED <<fieldTypes, tagVars, dom, mmmServer, pending>>

\* clear() of quad-form.js: the 'click' listener of clear-btn, or the host
JsClear ==
  /\ JsBudget
  /\ JsCleared(<< >>)
  /\ handler' = "clear"
  /\ stored' = << >>
  /\ returned' = undefined
  /\ settled' = NotAwaited
  /\ gestures' = gestures + 1
  /\ JsFrame
  /\ UNCHANGED <<mmmServer, defaultGraph, pending>>

\* handleSubmit of quad-form.js up to its await: the 'submit' listener of the
\* form, reached through the enabled submit button
JsHandleSubmit ==
  /\ connected
  /\ dom.mode = "full"
  /\ ~dom.submitDisabled
  /\ LET errors == JsValidationErrors(fieldValues)
         quad == Quad(prefixes, fieldValues, expandQNames, currentIdentity,
                      objectDatatype, objectLanguage)
         validation == << ValidationChanged(errors) >>
         submitted == validation \o << Notify("quad-submitted", quad) >>
     IN IF errors # << >>
          THEN /\ dom' = JsValidated(dom, errors)
               /\ emitted' = validation
               /\ stored' = << >>
               /\ UNCHANGED <<fieldValues, fieldTypes, tagVars, pending>>
        ELSE IF ~Falsy(mmmServer)
          THEN /\ Len(pending) < MaxPending
               /\ dom' = JsValidated(dom, errors)
               /\ emitted' = submitted \o << Called("addQuad", quad) >>
               /\ stored' = << quad >>
               /\ pending' = Append(pending, quad)
               /\ UNCHANGED <<fieldValues, fieldTypes, tagVars>>
        ELSE /\ JsCleared(submitted)
             /\ stored' = << >>
             /\ UNCHANGED pending
  /\ handler' = "handleSubmit"
  /\ returned' = undefined
  /\ settled' = NotAwaited
  /\ JsFrame
  /\ UNCHANGED <<gestures, mmmServer, defaultGraph>>

\* handleSubmit of quad-form.js after the await: addQuad resolved, clear()
JsAddQuadResolved ==
  /\ \E i \in DOMAIN pending : pending' = Without(pending, i)
  /\ JsCleared(<< >>)
  /\ handler' = "handleSubmit resumed"
  /\ settled' = [ outcome |-> "resolved", reason |-> undefined ]
  /\ stored' = << >>
  /\ returned' = undefined
  /\ JsFrame
  /\ UNCHANGED <<gestures, mmmServer, defaultGraph>>

\* handleSubmit of quad-form.js after the await: addQuad rejected with err
JsAddQuadRejected ==
  /\ \E i \in DOMAIN pending : pending' = Without(pending, i)
  /\ \E err \in Rejections :
       /\ settled' = [ outcome |-> "rejected", reason |-> err ]
       /\ emitted' = Caught(err)
  /\ handler' = "handleSubmit resumed"
  /\ stored' = << >>
  /\ returned' = undefined
  /\ JsFrame
  /\ UNCHANGED <<gestures, mmmServer, defaultGraph, fieldValues, fieldTypes,
                 tagVars, dom>>

JsNext ==
  \/ JsHandleFieldChange
  \/ JsSetMmmServer
  \/ JsSetDefaultGraph
  \/ JsClear
  \/ JsHandleSubmit
  \/ JsAddQuadResolved
  \/ JsAddQuadRejected

JsSpec == Init /\ [][JsNext]_vars

\* a prefixes-form listener and the prefixes setter, as gestures of the form
FormPrefixDisabled == Budget /\ PrefixDisabled

FormSetPrefixes == Budget /\ SetPrefixes

FormNext ==
  \/ OnInput
  \/ OnTextareaInput
  \/ OnSelectChange
  \/ SetField
  \/ HandleTypeChange
  \/ HandleControlToggle
  \/ ToggleTinyMode
  \/ ToggleNanoMode
  \/ CycleTinyFieldType
  \/ OnLanguageInput
  \/ OnGraphPathInput
  \/ Clear
  \/ SetMmmServer
  \/ SetCurrentIdentity
  \/ SetExpandQNames
  \/ SetDefaultGraph
  \/ Validate
  \/ HandleSubmit
  \/ AddQuadResolved
  \/ AddQuadRejected
  \/ FormPrefixDisabled
  \/ FormSetPrefixes

FormSpec == Init /\ [][FormNext]_vars

\* The user alone: every gesture the rendered form offers, in the three
\* regimes, on a form the host leaves as it was constructed.
UiNext ==
  \/ OnInput
  \/ OnTextareaInput
  \/ OnSelectChange
  \/ HandleTypeChange
  \/ HandleControlToggle
  \/ ToggleTinyMode
  \/ ToggleNanoMode
  \/ CycleTinyFieldType
  \/ CycleTinyPicker
  \/ OnLanguageInput
  \/ OnGraphPathInput
  \/ OnGraphMentalSpaceChange
  \/ HandleSubmit

UiSpec == Init /\ [][UiNext]_vars

\* The regimes: the host calls toggleTinyMode() and toggleNanoMode() in any
\* state, whatever buttons are shown, takes the element out of the document
\* and puts it back; the user types, picks and submits in between.
ModeNext ==
  \/ toggleTinyMode
  \/ toggleNanoMode
  \/ Disconnect
  \/ Connect
  \/ OnInput
  \/ SetField
  \/ Clear
  \/ HandleControlToggle
  \/ CycleTinyFieldType
  \/ HandleSubmit

ModeSpec == Init /\ [][ModeNext]_vars

\* The graph field: the user edits the path and chooses the mental space, the
\* host assigns the graph, the default graph and the identity, and clears.
GraphNext ==
  \/ OnGraphPathInput
  \/ OnGraphMentalSpaceChange
  \/ SetField
  \/ SetDefaultGraph
  \/ SetCurrentIdentity
  \/ Clear
  \/ ToggleTinyMode
  \/ Disconnect
  \/ Connect

GraphSpec == Init /\ [][GraphNext]_vars

\* The life cycle of the element: it is taken out of the document and put
\* back, the host goes on calling it, the user acts while it is connected.
LifeNext ==
  \/ Disconnect
  \/ Connect
  \/ SetCurrentIdentity
  \/ SetMmmServer
  \/ SetExpandQNames
  \/ SetDefaultGraph
  \/ SetField
  \/ Clear
  \/ Validate
  \/ OnInput
  \/ ToggleTinyMode
  \/ ToggleNanoMode
  \/ HandleSubmit
  \/ AddQuadResolved
  \/ AddQuadRejected

LifeSpec == Init /\ [][LifeNext]_vars

\* ===================================================================== claims
IdentifierTypes == { "qname", "uri" }

KnownSchemes == MMM_URN_SCHEMES \cup STANDARD_SCHEMES

UriMark == "://"

IsString(v) == v # undefined /\ v # null /\ v # TypeError

\* the text before and after the first colon of a value that has one
SchemePart(v) == substring(v, 0, indexOf(v, ":"))

RestPart(v) == substringFrom(v, indexOf(v, ":") + 1)

QName(k, l) == Concat(Concat(k, ":"), l)

WhitespaceOnly(v) == \A i \in 1..Len(v) : CharAt(v, i) \in WhiteSpace

\* C1: validateField returns false for every field and every type when the
\* value is empty, absent or consists only of whitespace.
C1_EmptyIsInvalid ==
  (op = "validateField"
     /\ (argValue = undefined \/ argValue = null \/ WhitespaceOnly(argValue)))
  => ret = JSFalse

C1_Witness ==
  /\ op = "validateField"
  /\ argValue = " "
  /\ argType = "string"
  /\ ret = JSFalse

\* C2: for type qname or uri and a value p:rest whose scheme is neither
\* reserved nor standard, validateField returns true exactly when p is a key
\* of the prefix table and rest matches the local-name pattern; it returns
\* false without a colon, with the colon at position 0 and with an empty rest.
C2_PrefixedNameValidity ==
  (op = "validateField" /\ argType \in IdentifierTypes /\ IsString(argValue))
  => IF indexOf(argValue, ":") <= 0 \/ RestPart(argValue) = ""
     THEN ret = JSFalse
     ELSE toLowerCase(SchemePart(argValue)) \notin KnownSchemes
          => (ret = JSTrue <=>
                /\ SchemePart(argValue) \in Keys(prefixes)
                /\ LocalNameRegex(RestPart(argValue)))

\* C3: for type qname or uri, a value whose part before the first colon is,
\* compared case-insensitively, a reserved or standard scheme and whose part
\* after the colon is non-empty is valid whatever the prefix table contains.
C3_KnownSchemeIsValid ==
  (op = "validateField" /\ argType \in IdentifierTypes /\ IsString(argValue)
     /\ indexOf(argValue, ":") > 0
     /\ toLowerCase(SchemePart(argValue)) \in KnownSchemes
     /\ RestPart(argValue) # "")
  => ret = JSTrue

\* a standard scheme that the user also registered as a prefix, with a rest
\* the local-name pattern rejects
C3_Witness ==
  /\ op = "validateField"
  /\ argType = "qname"
  /\ argValue = "urn:publ/scratch"
  /\ hasOwnProperty(prefixes, "urn")
  /\ ret = JSTrue

C5_LookupIsCaseSensitive ==
  (op = "validateField" /\ argType \in IdentifierTypes /\ IsString(argValue)
     /\ indexOf(argValue, ":") > 0
     /\ toLowerCase(SchemePart(argValue)) \notin KnownSchemes
     /\ LocalNameRegex(RestPart(argValue)))
  => (ret = JSTrue <=> SchemePart(argValue) \in Keys(prefixes))

\* C6: expandQName returns s unchanged for every s that contains "://",
\* whatever the prefix table holds.
C6_UriIsFixedPoint ==
  (op = "expandQName" /\ IsString(argValue) /\ includes(argValue, UriMark))
  => ret = argValue

\* the text before the first colon is a registered prefix
C6_Witness ==
  /\ op = "expandQName"
  /\ argValue = "ex://Alice"
  /\ Get(prefixes, "ex") = "http://example.org/"
  /\ ret = argValue

\* C7, as claimed: for every registered prefix p with namespace n, built-in
\* ones included, and every conforming local, expandQName(p:local) is n + local.
C7_ExpandsEveryRegisteredPrefix ==
  \A i \in DOMAIN prefixes, l \in Locals :
    (op = "expandQName" /\ argValue = QName(prefixes[i].prefix, l))
    => ret = Concat(prefixes[i].expansion, l)

\* C7, amended: for every prefix p registered with a non-empty namespace n
\* that is not itself the name of a reserved or standard scheme, and every
\* conforming local, expandQName(p:local) is n + local.
C7_ExpandsRegisteredPrefix ==
  \A i \in DOMAIN prefixes, l \in Locals :
    (op = "expandQName" /\ argValue = QName(prefixes[i].prefix, l)
       /\ prefixes[i].prefix \notin KnownSchemes
       /\ prefixes[i].expansion # "")
    => ret = Concat(prefixes[i].expansion, l)

C7_Witness ==
  /\ op = "expandQName"
  /\ argValue = "foaf:Alice"
  /\ ret = "http://xmlns.com/foaf/0.1/Alice"

C9_RoundTrip ==
  \A i \in DOMAIN prefixes, l \in Locals :
    (op = "contractUri"
       /\ argValue = expandQName(prefixes, QName(prefixes[i].prefix, l))
       /\ (\A k \in DOMAIN prefixes : prefixes[k].expansion # "")
       /\ \A j \in DOMAIN prefixes \ {i} :
             ~startsWith(prefixes[j].expansion, prefixes[i].expansion))
    => ret = QName(prefixes[i].prefix, l)

\* C9, amended: the round trip holds for every p:local that expandQName
\* expands (n non-empty, p not the name of a reserved or standard scheme),
\* whenever no namespace registered under another key is a prefix of n + local.
C9_RoundTripUnambiguous ==
  \A i \in DOMAIN prefixes, l \in Locals :
    (op = "contractUri"
       /\ argValue = expandQName(prefixes, QName(prefixes[i].prefix, l))
       /\ prefixes[i].prefix \notin KnownSchemes
       /\ prefixes[i].expansion # ""
       /\ \A j \in DOMAIN prefixes \ {i} :
             ~startsWith(Concat(prefixes[i].expansion, l), prefixes[j].expansion))
    => ret = QName(prefixes[i].prefix, l)

\* a prefix added by the user is contracted back
C9_Witness ==
  /\ op = "contractUri"
  /\ ~hasOwnProperty(prefixes, "ex")
  /\ argValue = "http://example.org/a/Alice"
  /\ ret = "exa:Alice"

\* C10: expandQName and contractUri never fail, whatever the input, and
\* return the input unchanged whenever no rule applies: an absent or empty
\* value, a value without a colon, an unknown prefix, a URI matching no
\* registered namespace.
C10_NeverFails ==
  /\ op \in { "expandQName", "contractUri" } => ret # TypeError
  /\ (op = "expandQName"
        /\ (~IsString(argValue) \/ argValue = "" \/ indexOf(argValue, ":") = -1
              \/ ~hasOwnProperty(prefixes, SchemePart(argValue))))
     => ret = argValue
  /\ (op = "contractUri"
        /\ (~IsString(argValue)
              \/ \A i \in DOMAIN prefixes :
                    ~startsWith(argValue, prefixes[i].expansion)))
     => ret = argValue

\* the kinds of `edit` that put a key into the table
AddingEdits == { "prefix-added", "prefix-enabled" }

\* C11: after the prefixes property is assigned a mapping m, the table holds
\* every built-in default prefix and every entry of m, and a key present in
\* both carries the namespace m gives it.
C11_AssignedMappingWins ==
  edit.kind = "set prefixes" =>
    /\ \A i \in DOMAIN COMMON_PREFIXES :
          hasOwnProperty(prefixes, COMMON_PREFIXES[i].prefix)
    /\ \A i \in DOMAIN edit.mapping :
          /\ hasOwnProperty(prefixes, edit.mapping[i].prefix)
          /\ Lookup(prefixes, edit.mapping[i].prefix) = edit.mapping[i].expansion

\* a mapping was assigned that gives a built-in prefix another namespace,
\* after a built-in prefix had been removed
C11_Witness ==
  /\ edit.kind = "set prefixes"
  /\ edits = 2
  /\ \E i \in DOMAIN edit.mapping, j \in DOMAIN COMMON_PREFIXES :
        /\ edit.mapping[i].prefix = COMMON_PREFIXES[j].prefix
        /\ edit.mapping[i].expansion # COMMON_PREFIXES[j].expansion
        /\ Lookup(prefixes, edit.mapping[i].prefix) = edit.mapping[i].expansion

\* C12: the table changes only through explicit additions and removals: an
\* entry stays, with its namespace, until a step removes or overwrites that
\* key (a prefix-disabled, prefix-added or prefix-enabled event for it, or an
\* assignment whose mapping holds it), and an absent key stays absent until a
\* step adds it; a later assignment of the prefixes property neither drops nor
\* restores an entry.
C12_OnlyExplicitEdits ==
  [][ /\ \A k \in Keys(prefixes) :
            \/ (hasOwnProperty(prefixes', k)
                  /\ Lookup(prefixes', k) = Lookup(prefixes, k))
            \/ (edit' # edit /\ edit'.kind = "prefix-disabled"
                  /\ edit'.prefix = k)
            \/ (edit' # edit /\ edit'.kind \in AddingEdits
                  /\ edit'.prefix = k)
            \/ (edit'.kind = "set prefixes"
                  /\ k \in Keys(edit'.mapping))
      /\ \A k \in Keys(prefixes') \ Keys(prefixes) :
            \/ (edit'.kind \in AddingEdits /\ edit'.prefix = k)
            \/ (edit'.kind = "set prefixes" /\ k \in Keys(edit'.mapping))
    ]_vars

\* ------------------------------------------------------------ claims, form
\* the quad-submitted notifications the last handler dispatched
Submitted == SelectSeq(emitted, LAMBDA n : n.type = "quad-submitted")

\* the validation-changed notifications the last handler dispatched
Validations == SelectSeq(emitted, LAMBDA n : n.type = "validation-changed")

\* the scenario of C13: on the freshly connected form three gestures have
\* set subject, predicate and object; nothing else was touched
C13_Scenario ==
  /\ gestures = 3
  /\ edits = 0
  /\ dom.mode = "full"
  /\ fieldValues.subject = "ex:Alice"
  /\ fieldValues.predicate = "foaf:knows"
  /\ fieldValues.object = "ex:Bob"

\* C13: on a freshly connected form in the Full regime, with subject
\* ex:Alice, predicate foaf:knows and object ex:Bob set and the graph left at
\* its default, the form accepts the submit gesture and the submit emits
\* exactly one record with the three names expanded, g the default graph and
\* neither d nor l.
C13_FullScenarioEmitsRecord ==
  C13_Scenario =>
    /\ SubmitGesture
    /\ validationErrors(dom.mode, fieldValues) = << >>
    /\ handler = "handleSubmit" =>
         /\ Len(Submitted) = 1
         /\ Submitted[1].detail.s = "http://example.org/Alice"
         /\ Submitted[1].detail.p = "http://xmlns.com/foaf/0.1/knows"
         /\ Submitted[1].detail.o = "http://example.org/Bob"
         /\ Submitted[1].detail.g = "mntl:publ/scratch"
         /\ Submitted[1].detail.d = undefined
         /\ Submitted[1].detail.l = undefined

\* the fields that are visible, and required, in the regime m
RequiredFields(m) ==
  IF m = "nano" THEN { "object" }
  ELSE IF m = "tiny" THEN Fields
  ELSE Fields \cup { "graph" }

\* the type a field is validated against in the regime m
CurrentType(m, f) == IF m = "tiny" THEN tinyFieldTypes[f] ELSE fieldTypes[f]

\* validateField rejects the field's stored value for its current type
InvalidField(f) ==
  ~validateField(prefixes, f, fieldValues[f], CurrentType(dom.mode, f))

SomeFieldInvalid == \E f \in RequiredFields(dom.mode) : InvalidField(f)

\* C14: a submit gesture emits no quad-submitted notification and makes no
\* storage call when a field that is required and visible in the current
\* regime is invalid under validateField for its current type.
C14_InvalidBlocksSubmit ==
  (handler = "handleSubmit" /\ SomeFieldInvalid) =>
    (Submitted = << >> /\ stored = << >>)

\* C15: in every reachable state the submit controls are disabled whenever a
\* field that is required and visible in the current regime is invalid.
C15_InvalidDisablesSubmit ==
  SomeFieldInvalid => (dom.submitDisabled /\ dom.submitTinyDisabled)

\* the message validate() reports for a field
RequiredMessage ==
  [ subject |-> "Subject is required", predicate |-> "Predicate is required",
    object |-> "Object is required", graph |-> "Graph is required" ]

\* the messages of the empty fields among those visible in the regime, in
\* the order subject, predicate, object, graph
ExpectedErrors ==
  LET order == << "subject", "predicate", "object", "graph" >>
      missing == SelectSeq(order,
                   LAMBDA f : f \in RequiredFields(dom.mode)
                              /\ Falsy(fieldValues[f]))
  IN [ i \in DOMAIN missing |-> RequiredMessage[missing[i]] ]

\* C16: validate() checks only the fields visible in the current regime
\* (subject, predicate, object and graph in Full; subject, predicate and
\* object in Compact; object alone in Minimal); it returns true exactly when
\* its error list is empty, emits one validation-changed notification
\* carrying that same {valid, errors} and sets both submit buttons' disabled
\* flag to the negation of valid.  Stated for every handler that runs it.
C16_ValidateVisibleFields ==
  /\ Validations # << >> =>
       /\ Len(Validations) = 1
       /\ Validations[1].detail.errors = ExpectedErrors
       /\ Validations[1].detail.valid = Bool(ExpectedErrors = << >>)
       /\ dom.submitDisabled = (ExpectedErrors # << >>)
       /\ dom.submitTinyDisabled = (ExpectedErrors # << >>)
  /\ handler = "validate" =>
       /\ Validations # << >>
       /\ returned = Validations[1].detail.valid

\* validate() returns true in the Compact regime although the hidden graph
\* is empty
C16_Witness ==
  /\ handler = "validate"
  /\ dom.mode = "tiny"
  /\ Falsy(fieldValues.graph)
  /\ returned = JSTrue
  /\ ~dom.submitTinyDisabled

\* C17: every emitted record has s, p, o and g equal to expandQName of the
\* stored subject, predicate, object and graph when expansion is enabled and
\* equal to the stored values verbatim when it is not; by is the configured
\* identity, or 'anonymous' when none is configured; the record handed to the
\* storage collaborator is the emitted record.
C17_RecordContents ==
  (handler = "handleSubmit" /\ Submitted # << >>) =>
    LET quad == Submitted[1].detail
        written(v) == IF expandQNames THEN expandQName(prefixes, v) ELSE v
    IN /\ Len(Submitted) = 1
       /\ quad.s = written(fieldValues.subject)
       /\ quad.p = written(fieldValues.predicate)
       /\ quad.o = written(fieldValues.object)
       /\ quad.g = written(fieldValues.graph)
       /\ quad.by = (IF currentIdentity \in { null, "" } THEN "anonymous"
                     ELSE currentIdentity)
       /\ stored = (IF mmmServer = null THEN << >> ELSE << quad >>)

\* a record left unexpanded was emitted and handed to the collaborator
C17_Witness ==
  /\ handler = "handleSubmit"
  /\ Submitted # << >>
  /\ ~expandQNames
  /\ mmmServer # null
  /\ stored = << Submitted[1].detail >>
  /\ Submitted[1].detail.o = "ex:Bob"
  /\ Submitted[1].detail.by = "anonymous"

\* C18: the datatype tag and the language tag are mutually exclusive: no
\* emitted record carries both d and l.
C18_TagsExclusive ==
  \A i \in DOMAIN Submitted :
    Submitted[i].detail.d = undefined \/ Submitted[i].detail.l = undefined

\* C19: a datatype tag or language tag is present only while the object's
\* representation in the current regime is a literal: when it is prefixed-name
\* or full-uri, also when reached by the Escape cycling of the Compact regime,
\* objectDatatype and objectLanguage are empty and a record carries neither d
\* nor l.
C19_TagsOnlyOnLiterals ==
  CurrentType(dom.mode, "object") \in IdentifierTypes =>
    /\ objectDatatype = ""
    /\ objectLanguage = ""
    /\ \A i \in DOMAIN Submitted :
         /\ Submitted[i].detail.d = undefined
         /\ Submitted[i].detail.l = undefined

\* C20: when the object's type is a literal, the o of the emitted record is
\* the entered text exactly as stored, also for text of the shape prefix:rest
\* with a registered prefix.
C20_LiteralObjectVerbatim ==
  ( /\ handler = "handleSubmit"
    /\ CurrentType(dom.mode, "object") \notin IdentifierTypes ) =>
    \A i \in DOMAIN Submitted : Submitted[i].detail.o = fieldValues.object
\* a language tag of two or three letters
IsLanguageTag(text) ==
  /\ Len(text) \in { 2, 3 }
  /\ \A i \in 1..Len(text) : CharAt(text, i) \in Chars(LowerChars \o UpperChars)

\* C21: with the object's type set to xsd:string and a language tag of two or
\* three letters entered, a submitted record has l equal to that tag in lower
\* case and no d; xsd:string is never emitted as a datatype tag, while every
\* other literal type T yields d = T.
C21_StringCarriesLanguageOnly ==
  handler = "handleSubmit" =>
    \A i \in DOMAIN Submitted :
      LET quad == Submitted[i].detail IN
      /\ quad.d # "xsd:string"
      /\ fieldTypes.object = "xsd:string" =>
           /\ quad.d = undefined
           /\ IsLanguageTag(dom.languageValue) =>
                quad.l = toLowerCase(dom.languageValue)
      /\ fieldTypes.object \notin IdentifierTypes \cup { "xsd:string" } =>
           quad.d = fieldTypes.object

\* a plain string tagged EN was submitted with l = en and without d
C21_Witness ==
  /\ handler = "handleSubmit"
  /\ Submitted # << >>
  /\ fieldTypes.object = "xsd:string"
  /\ dom.languageValue = "EN"
  /\ Submitted[1].detail.l = "en"
  /\ Submitted[1].detail.d = undefined
\* C22: switching the object's type in the type selector from a literal type
\* to prefixed-name or full-uri clears the datatype tag and the language tag
\* and leaves the object's value as entered; switching from one literal type
\* to another keeps the object's value unchanged and sets the datatype tag to
\* the new type.
C22_TypeSwitchKeepsValue ==
  [][ ( /\ handler' = "handleTypeChange"
        /\ fieldTypes'.object # fieldTypes.object
        /\ fieldTypes.object \notin IdentifierTypes ) =>
      /\ fieldValues'.object = fieldValues.object
      /\ IF fieldTypes'.object \in IdentifierTypes
           THEN objectDatatype' = "" /\ objectLanguage' = ""
           ELSE objectDatatype' = fieldTypes'.object
    ]_vars
\* the quad-error notifications the last handler dispatched
Errors == SelectSeq(emitted, LAMBDA n : n.type = "quad-error")

\* C23: in the Minimal regime a submit gesture (blur of the object field or
\* the Tab key) while the object value is empty or whitespace-only emits no
\* record, makes no storage call, emits no error notification and changes no
\* field value.
C23_NanoBlankSubmitIsNoOp ==
  [][ ( /\ handler' = "handleSubmit"
        /\ dom.mode = "nano"
        /\ WhitespaceOnly(fieldValues.object) ) =>
      /\ emitted' = << >>
      /\ stored' = << >>
      /\ pending' = pending
      /\ fieldValues' = fieldValues
    ]_vars

\* the submit gesture ran on a whitespace-only object in the Minimal regime
\* with a storage collaborator injected
C23_Witness ==
  /\ handler = "handleSubmit"
  /\ dom.mode = "nano"
  /\ fieldValues.object = " "
  /\ mmmServer # null
  /\ emitted = << >>
\* C24: the Minimal regime is absorbing: once it has been entered, no
\* user-interface action available in that regime and no repeated entry
\* request changes the regime; the container mode stays nano and nanoMode
\* stays true.
C24_NanoIsAbsorbing ==
  [][ nanoMode =>
        /\ dom.mode = "nano"
        /\ nanoMode'
        /\ ~tinyMode'
        /\ dom'.mode = "nano"
    ]_vars

\* the entry request was repeated in the Minimal regime: it did not fill the
\* subject that clear() had emptied, and the regime is still Minimal
C24_Witness ==
  /\ handler = "toggleNanoMode"
  /\ nanoMode
  /\ dom.mode = "nano"
  /\ fieldValues.subject = ""
\* the value a hidden field holds after the Minimal regime filled it
Defaulted(value, default) == IF value = "" THEN default ELSE value

\* entering the Minimal regime and submitting in it fill the empty hidden
\* fields with their defaults and keep the others
NanoFilling ==
  ( \/ handler' = "toggleNanoMode" /\ ~nanoMode
    \/ handler' = "handleSubmit" /\ dom.mode = "nano" /\ Submitted' # << >> ) =>
    /\ fieldValues'.subject = Defaulted(fieldValues.subject, "ex:DefaultSubject")
    /\ fieldValues'.predicate = Defaulted(fieldValues.predicate, "rdfs:comment")
    /\ fieldValues'.graph = Defaulted(fieldValues.graph, defaultGraph)

\* C25: every record emitted in the Minimal regime has non-empty subject,
\* predicate and graph: a field that is empty when the regime is entered or
\* when submit runs is filled with its fixed default (subject
\* 'ex:DefaultSubject', predicate 'rdfs:comment', graph the configured default
\* graph), and a non-empty value set before is kept unchanged.
C25_NanoRecordComplete ==
  [][ /\ NanoFilling
      /\ (handler' = "handleSubmit" /\ dom.mode = "nano") =>
           \A i \in DOMAIN Submitted' :
             /\ Submitted'[i].detail.s # ""
             /\ Submitted'[i].detail.p # ""
             /\ Submitted'[i].detail.g # ""
    ]_vars

\* C25, amended: the graph of the record is non-empty when the configured
\* default graph is.
C25_NanoRecordCompleteGivenDefault ==
  [][ /\ NanoFilling
      /\ (handler' = "handleSubmit" /\ dom.mode = "nano") =>
           \A i \in DOMAIN Submitted' :
             /\ Submitted'[i].detail.s # ""
             /\ Submitted'[i].detail.p # ""
             /\ defaultGraph # "" => Submitted'[i].detail.g # ""
    ]_vars

\* a record was emitted in the Minimal regime with the hidden fields at
\* their defaults
C25_Witness ==
  /\ handler = "handleSubmit"
  /\ dom.mode = "nano"
  /\ Submitted # << >>
  /\ fieldValues.subject = "ex:DefaultSubject"
  /\ fieldValues.graph = "mntl:publ/scratch"
  /\ Submitted[1].detail.s = "http://example.org/DefaultSubject"
\* the i-th entry of a handler's effects is the call addQuad(quad) and an
\* earlier entry is the quad-submitted notification of the same record
CallFollowsNotification(effects, i) ==
  effects[i].type = "call addQuad" =>
    \E j \in 1..(i - 1) : effects[j] = Notify("quad-submitted", effects[i].detail)

\* C26: with a storage collaborator injected a valid submit first emits
\* quad-submitted and only then calls addQuad with that record; if addQuad
\* rejects, exactly one quad-error carrying the rejection reason is emitted,
\* after the quad-submitted notification, and no exception escapes the submit
\* handler; if addQuad resolves, no quad-error is emitted.
C26_ErrorFollowsSubmitted ==
  [][ /\ handler' = "handleSubmit" =>
           /\ \A i \in DOMAIN emitted' : CallFollowsNotification(emitted', i)
           /\ (Submitted' # << >> /\ mmmServer # null) =>
                /\ stored' = << Submitted'[1].detail >>
                /\ pending' = Append(pending, Submitted'[1].detail)
           /\ Errors' = << >>
           /\ returned' = undefined
      /\ pending' # pending =>
           \/ handler' = "handleSubmit" /\ Len(pending') = Len(pending) + 1
           \/ handler' = "handleSubmit resumed"
                /\ Len(pending') = Len(pending) - 1
      /\ handler' = "handleSubmit resumed" =>
           /\ returned' = undefined
           /\ emitted' = ( IF settled'.outcome = "rejected"
                             THEN << Notify("quad-error",
                                            [ error |-> settled'.reason ]) >>
                             ELSE << >> )
      /\ handler' # "handleSubmit resumed" => Errors' = << >>
    ]_vars

\* the collaborator rejected an awaited call with 'denied' and the form
\* dispatched the matching quad-error
C26_Witness ==
  /\ handler = "handleSubmit resumed"
  /\ settled = [ outcome |-> "rejected", reason |-> "denied" ]
  /\ Errors = << Notify("quad-error", [ error |-> "denied" ]) >>
  /\ mmmServer # null
\* the record a submit gesture would emit in the state as it stands
RetryQuad ==
  Quad(prefixes, SubmitFields(dom.mode, fieldValues, defaultGraph),
       expandQNames, currentIdentity, objectDatatype, objectLanguage)

\* a submit gesture is at hand and would get past validation
RetryProceeds ==
  /\ SubmitGesture
  /\ Proceeds(dom.mode, SubmitFields(dom.mode, fieldValues, defaultGraph))

\* C27: when the storage collaborator rejects a submission the form is left
\* populated: every field value, field type, the datatype tag and the
\* language tag present before the submit are unchanged after the error
\* notification, so an immediate retry submits the same record contents.
C27_RejectionKeepsForm ==
  [][ /\ (handler' = "handleSubmit" /\ stored' # << >>) =>
           /\ \A f \in DOMAIN fieldValues :
                fieldValues[f] # "" => fieldValues'[f] = fieldValues[f]
           /\ UNCHANGED <<fieldTypes, tinyFieldTypes, objectDatatype,
                          objectLanguage>>
      /\ (handler' = "handleSubmit resumed" /\ settled'.outcome = "rejected") =>
           /\ Errors' # << >>
           /\ UNCHANGED <<fieldValues, fieldTypes, tinyFieldTypes,
                          objectDatatype, objectLanguage, dom, prefixes,
                          configVars, modeVars, connected>>
           /\ (handler = "handleSubmit" /\ stored # << >>) =>
                (RetryProceeds /\ RetryQuad = stored[1])
    ]_vars

\* the submission of ex:Bob was rejected and the form still holds it
C27_Witness ==
  /\ handler = "handleSubmit resumed"
  /\ settled.outcome = "rejected"
  /\ fieldValues.object = "ex:Bob"
  /\ pending = << >>
  /\ RetryProceeds
  /\ RetryQuad.o = "http://example.org/Bob"
\* the form is valid for its regime and, in the Full regime, its submit
\* button is enabled
ValidForm ==
  /\ ~WhitespaceOnly(fieldValues.object)
  /\ dom.mode # "nano" =>
       fieldValues.subject # "" /\ fieldValues.predicate # ""
  /\ dom.mode = "full" => fieldValues.graph # "" /\ ~dom.submitDisabled

\* C28: there is no in-flight guard on submission: while the storage call of
\* an earlier submission is pending, a further submit gesture on a valid form
\* is not blocked; it emits a second quad-submitted notification and issues a
\* second addQuad call, the submit controls stay enabled throughout, and the
\* calls may complete in either order.
C28_NoInFlightGuard ==
  [][ /\ ( /\ handler' = "handleSubmit"
           /\ pending # << >>
           /\ mmmServer # null
           /\ ValidForm ) =>
           /\ Submitted' = << Notify("quad-submitted", RetryQuad) >>
           /\ stored' = << RetryQuad >>
           /\ pending' = Append(pending, RetryQuad)
           /\ dom.mode # "nano" =>
                ~dom'.submitDisabled /\ ~dom'.submitTinyDisabled
      /\ handler' = "handleSubmit resumed" => dom' = dom
      /\ \A i \in DOMAIN pending :
           /\ ENABLED ( AddQuadResolved /\ pending' = Without(pending, i) )
           /\ ENABLED ( AddQuadRejected /\ pending' = Without(pending, i) )
    ]_vars

\* two calls were outstanding and the later one, submitted with expansion
\* switched off, settled first: the earlier one is still awaited
C28_Witness ==
  /\ handler = "handleSubmit resumed"
  /\ ~expandQNames
  /\ Len(pending) = 1
  /\ pending[1].o = "http://example.org/Bob"

\* C29: while the component is disconnected no refresh interval is active,
\* whatever the host did to it since it was taken out of the document.
\* updateAttribution() starts an interval whenever none is recorded, and the
\* currentIdentity setter calls it without looking at the connection, so the
\* property is violated by disconnecting and assigning currentIdentity.
C29_NoTimerWhileDisconnected ==
  ~connected => (timers = 0 /\ Falsy(attributionInterval))

\* the field types the constructor sets
InitialFieldTypes ==
  [ subject |-> "uri", predicate |-> "qname", object |-> "uri", graph |-> "qname" ]

\* everything clear() could touch: the whole form apart from the count of
\* gestures
ClearScope ==
  <<fieldValues, typeVars, tagVars, graphVars, configVars, modeVars, dom,
    prefixes, pending, lifeVars>>

\* C30: clear() from any state empties subject, predicate and object, sets the
\* graph to the configured default graph, puts the field types back to their
\* initial values and empties the datatype and language tags; it leaves the
\* prefix table, the regime, the identity, the default graph and the
\* expansion toggle as they were; a second clear() right after the first
\* changes nothing and dispatches the same notification.
C30_ClearResets ==
  [][ handler' = "clear" =>
        /\ fieldValues' = [ subject |-> "", predicate |-> "", object |-> "",
                            graph |-> defaultGraph ]
        /\ fieldTypes' = InitialFieldTypes
        /\ objectDatatype' = ""
        /\ objectLanguage' = ""
        /\ UNCHANGED <<prefixes, nanoMode, tinyMode, currentIdentity,
                       defaultGraph, expandQNames>>
        /\ dom'.mode = dom.mode
        /\ handler = "clear" => UNCHANGED <<ClearScope, emitted, returned>>
    ]_vars

\* clear() ran on a form whose prefix table was edited, whose default graph
\* was reconfigured to a non-empty value and that is not in the Full regime
C30_Witness ==
  /\ handler = "clear"
  /\ edits > 0
  /\ defaultGraph \notin { "", "mntl:publ/scratch" }
  /\ fieldValues.graph = defaultGraph
  /\ dom.mode # "full"

\* the listeners through which the user enters or picks a field's value
ValueGestures ==
  { "input", "textarea input", "select change", "handleGraphPathChange",
    "cycleTinyPicker" }

\* the field-changed notifications among the entries of a handler's effects
FieldChanges(effects) == SelectSeq(effects, LAMBDA e : e.type = "field-changed")

\* C31: every change of a field's stored value made by a keystroke in a
\* subject, predicate, object or graph input, by a choice in a picker or by
\* the arrow keys of the Compact form comes with exactly one field-changed
\* notification carrying that field and its new value.  The graph-path
\* listener and cycleTinyPicker store the value and dispatch no such
\* notification.
C31_EditNotifiesFieldChanged ==
  [][ handler' \in ValueGestures =>
        \A field \in DOMAIN fieldValues :
          fieldValues'[field] # fieldValues[field] =>
            FieldChanges(emitted') =
              << FieldChanged(field, fieldValues'[field]) >>
    ]_vars

\* C32: in the Minimal regime a submit that emitted a record empties the
\* object field, so that a blur or Tab that follows on the untouched field
\* does not emit the record again.  handleSubmit never clears anything: the
\* object stays and the next blur emits the same record.
C32_NanoSubmitClearsObject ==
  ( handler = "handleSubmit" /\ dom.mode = "nano" /\ Submitted # << >> ) =>
    /\ fieldValues.object = ""
    /\ ~ENABLED ( HandleSubmit /\ emitted' = emitted )

\* C33: a type switch between prefixed name and full uri converts the stored
\* value of the field: qname -> uri stores expandQName of the value stored
\* just before, uri -> qname stores contractUri of it, for subject, predicate
\* and object, whether the value was typed or picked.  handleTypeChange
\* converts the text of the field's input when there is any, and the stored
\* value only otherwise, so a value picked after one was typed is replaced by
\* the conversion of the typed one.
C33_TypeSwitchConvertsStored ==
  [][ handler' = "handleTypeChange" =>
        \A field \in Fields :
          /\ ( fieldTypes[field] = "qname" /\ fieldTypes'[field] = "uri" )
             => fieldValues'[field] = expandQName(prefixes, fieldValues[field])
          /\ ( fieldTypes[field] = "uri" /\ fieldTypes'[field] = "qname" )
             => fieldValues'[field] = contractUri(prefixes, fieldValues[field])
    ]_vars

\* C34: the three regimes exclude each other in every reachable state:
\* nanoMode and tinyMode are never both true, and the container's data-mode
\* is nano exactly when nanoMode is true, tiny exactly when tinyMode is true,
\* full exactly when both are false, after any sequence of toggleTinyMode()
\* and toggleNanoMode() calls.
C34_RegimesExclusive ==
  /\ ~(nanoMode /\ tinyMode)
  /\ dom.mode = "nano" <=> nanoMode
  /\ dom.mode = "tiny" <=> tinyMode
  /\ dom.mode = "full" <=> (~nanoMode /\ ~tinyMode)

\* the nano form was left through toggleTinyMode(), and the tiny form is up
\* after the element was taken out of the document and put back
C34_Witness ==
  /\ handler = "connectedCallback"
  /\ gestures >= 4
  /\ tinyMode
  /\ fieldValues.subject = "ex:DefaultSubject"

\* C35: in the Full regime the stored graph is the composition shown to the
\* user, getGraphPrefix() followed by graphPath, after connection and after
\* any graph-path edit, mental-space change, setField('graph', v), assignment
\* of defaultGraph or currentIdentity, and clear().  The constructor stores ''
\* next to the path '/scratch', and the setters and clear() store a graph
\* without recomposing it.
C35_GraphIsComposition ==
  dom.mode = "full" =>
    fieldValues.graph =
      getGraphPrefix(graphMentalSpace, currentIdentity) \o graphPath

\* C36: at most one timestamp-refresh interval is active at any time, for
\* every sequence of connect, render, currentIdentity assignments, disconnect
\* and reconnect: an interval runs exactly when one is recorded in
\* _attributionInterval, since updateAttribution starts one only when none is
\* recorded and disconnectedCallback clears the recorded one.
C36_AtMostOneInterval ==
  /\ timers \in { 0, 1 }
  /\ timers = 1 <=> ~Falsy(attributionInterval)

\* the element was reconnected after its identity was assigned and it was
\* taken out of the document: updateAttribution ran at least three times
C36_Witness ==
  /\ handler = "connectedCallback"
  /\ gestures >= 3
  /\ ~Falsy(currentIdentity)
  /\ timers = 1

\* validateField accepted the value in its prefix-table branch: the scheme is
\* neither reserved nor standard and names a non-empty namespace of the table
AcceptedAsPrefixedName ==
  /\ op = "validateField"
  /\ argType \in IdentifierTypes
  /\ IsString(argValue)
  /\ ret = JSTrue
  /\ toLowerCase(SchemePart(argValue)) \notin KnownSchemes
  /\ ~Falsy(Get(prefixes, toLowerCase(SchemePart(argValue))))

\* namespace + local part, the namespace being the one registered for the
\* prefix as written or the one validation found
Expansions(tbl, v) ==
  { Concat(Get(tbl, k), RestPart(v)) :
      k \in { k \in { SchemePart(v), toLowerCase(SchemePart(v)) } :
                hasOwnProperty(tbl, k) /\ ~Falsy(Get(tbl, k)) } }

\* C37: validation and expansion agree on prefixed names: a value that
\* validateField accepts as a prefixed name is rewritten by expandQName to
\* namespace + local part, so a record built with expansion enabled carries
\* the expansion.  validateField looks the prefix up in lower case,
\* expandQName as written: 'EX:Alice' is accepted and left as it is.
C37_ValidatedIsExpanded ==
  AcceptedAsPrefixedName =>
    /\ expandQName(prefixes, argValue) \in Expansions(prefixes, argValue)
    /\ Quad(prefixes,
            [ subject |-> argValue, predicate |-> argValue,
              object |-> argValue, graph |-> "" ],
            TRUE, null, "", "").s \in Expansions(prefixes, argValue)

\* the field values clear() leaves
ClearedValues ==
  [ subject |-> "", predicate |-> "", object |-> "", graph |-> defaultGraph ]

\* the types of the effects a handler produced, in order
EffectTypes(effects) == [ i \in DOMAIN effects |-> effects[i].type ]

\* C38: in quad-form.js a submission clears the form only on success.  With
\* a collaborator, handleSubmit dispatches the record, calls addQuad and
\* leaves the form as it is; when the call resolves clear() resets every
\* field value to its default, whatever the fields hold by then; when it
\* rejects nothing of the form changes.  Without a collaborator clear() runs
\* right after quad-submitted is dispatched.
C38_JsClearsOnSuccessOnly ==
  [][ /\ ( handler' = "handleSubmit resumed" /\ settled'.outcome = "resolved" )
         => /\ fieldValues' = ClearedValues
            /\ fieldTypes' = InitialFieldTypes
            /\ objectDatatype' = "" /\ objectLanguage' = ""
            /\ EffectTypes(emitted') = << "validation-changed" >>
      /\ ( handler' = "handleSubmit resumed" /\ settled'.outcome = "rejected" )
         => /\ UNCHANGED <<fieldValues, fieldTypes, tagVars, dom>>
            /\ EffectTypes(emitted') = << "quad-error" >>
      /\ ( handler' = "handleSubmit" /\ Len(emitted') > 1 )
         => IF Falsy(mmmServer)
              THEN /\ fieldValues' = ClearedValues
                   /\ EffectTypes(emitted') =
                        << "validation-changed", "quad-submitted",
                           "validation-changed" >>
                   /\ UNCHANGED pending
              ELSE /\ UNCHANGED <<fieldValues, fieldTypes, tagVars>>
                   /\ EffectTypes(emitted') =
                        << "validation-changed", "quad-submitted",
                           "call addQuad" >>
                   /\ pending' = Append(pending, emitted'[2].detail)
    ]_vars

\* an addQuad call resolved and the form was cleared while a later
\* submission is still awaited
C38_Witness ==
  /\ handler = "handleSubmit resumed"
  /\ settled.outcome = "resolved"
  /\ Len(pending) = 1
  /\ fieldValues = ClearedValues
  /\ dom.submitDisabled

====
